---------------------------- MODULE Spec2Model ----------------------------
(***************************************************************************)
(* Timer scheduler of vercel_ai/src/server/timerScheduler.ts               *)
(* (createTimerScheduler) together with the host timing primitives it      *)
(* drives (setTimeout / setInterval / clearTimeout / clearInterval) and    *)
(* the listeners registered through onEvent.                               *)
(*                                                                         *)
(* Time is one integer millisecond clock shared by safeNow() and the host  *)
(* timers.  The clock may advance between two statements of a handler      *)
(* (by at most MaxLag per read of the clock), and between handlers by      *)
(* Tick.  A host timer armed with delay d at clock value t runs no earlier *)
(* than t + d; a repeating host timer is re-armed one period after the     *)
(* start of the callback that just ran (Node's timers).                    *)
(*                                                                         *)
(* Listeners are code outside the scheduler: a listener invoked with an    *)
(* event may return, may call cancelTimer for the event's id before        *)
(* returning (re-entrancy), or may throw.                                  *)
(***************************************************************************)
EXTENDS Integers, Sequences, FiniteSets, TLC

(***************************************************************************)
(* Bounds of the model.                                                    *)
(***************************************************************************)
MaxTimers == 2
MaxTime == 60
MaxLag == 1
MaxCalls == 3
MaxReacts == 2
MaxListeners == 2
MaxConns == 2
MaxRequests == 2

(***************************************************************************)
(* Program constant: the floor of everyMs (timerScheduler.ts line 145).    *)
(***************************************************************************)
MinEveryMs == 50

VARIABLES
    now,        \* the clock: what safeNow() / Date.now() returns
    timers,     \* the Map id -> InternalTimer {info, handle}
    host,       \* the host's armed timers: handle -> [due, period]
    listeners,  \* the Set of listeners, in insertion order
    nextId,     \* number of ids createId() has handed out
    calls,      \* number of calls clients have made
    reacts,     \* number of listener invocations that cancelled or threw
    trace,      \* history: calls made and returned, events emitted, hooks run
    last,       \* the listener invocations of the latest handler
    held,       \* the array a client got from its latest listTimers() call
    clients,    \* timerWsServer: the Set clients, in insertion order
    conn,       \* timerWsServer: each connection's state and messages received
    callers     \* the runs of executeTimerAction, each with its client socket

vars == <<now, timers, host, listeners, nextId, calls, reacts, trace, last,
          held, clients, conn, callers>>

\* what the scheduler's own operations leave alone
outside == <<held, clients, conn, callers>>

(***************************************************************************)
(* Optional fields (everyMs?, lastRunAt?, startAt?, id?) are <<>> when     *)
(* absent and <<v>> when present.                                          *)
(***************************************************************************)
Absent == <<>>
Some(v) == <<v>>
Get(o) == o[1]

ListenerIds == 1..MaxListeners
TimerIds == 1..MaxTimers
\* an id string that createId() never returns
UnknownId == 0

Reactions == {"return", "cancel", "throw"}
Quiet == [l \in ListenerIds |-> "return"]

(***************************************************************************)
(* TimerTask: data is undefined, a plain JSON value, or a value            *)
(* JSON.stringify cannot serialise (cyclic object, BigInt).                *)
(***************************************************************************)
\* runTask(task): TRUE when it throws.  Only the log branch serialises data.
runTaskThrows(task) ==
    IF task.type = "log"
    THEN task.data # "undefined" /\ task.data = "cyclic"
    ELSE FALSE

clampMin(value, min) == IF value < min THEN min ELSE value

NoInfo == [id |-> UnknownId, mode |-> "none", createdAt |-> 0, nextRunAt |-> 0,
           everyMs |-> Absent, lastRunAt |-> Absent,
           task |-> [type |-> "none", data |-> "undefined"]]

(***************************************************************************)
(* The scheduler's state as one value, threaded through a handler.         *)
(***************************************************************************)
State == [clock |-> now, timers |-> timers, host |-> host, trace |-> trace,
          last |-> <<>>, reacts |-> reacts]

Live(S) == DOMAIN S.timers

Entry(k, l, type, id, ok, firedAt, timer) ==
    [k |-> k, l |-> l, type |-> type, id |-> id, ok |-> ok,
     firedAt |-> firedAt, timer |-> timer]

Log(S, e) == [S EXCEPT !.trace = Append(@, e)]

\* the events of TimerEvent that the scheduler emits
EvCreated(info) == [type |-> "timer.created", id |-> info.id, ok |-> FALSE,
                    firedAt |-> 0, timer |-> info]
EvCanceled(id, ok) == [type |-> "timer.canceled", id |-> id, ok |-> ok,
                       firedAt |-> 0, timer |-> NoInfo]
EvFired(info, firedAt) == [type |-> "timer.fired", id |-> info.id, ok |-> FALSE,
                           firedAt |-> firedAt, timer |-> info]
EvError(id) == [type |-> "timer.error", id |-> id, ok |-> FALSE,
                firedAt |-> 0, timer |-> NoInfo]

\* listTimers(): the ids of the snapshot
listTimers(S) == Live(S)

RECURSIVE emit(_, _, _)
RECURSIVE emitTo(_, _, _, _)

Without(f, k) == [x \in DOMAIN f \ {k} |-> f[x]]
With(f, k, v) == [x \in DOMAIN f \cup {k} |-> IF x = k THEN v ELSE f[x]]

\* a clearTimeout / clearInterval that leaves the host timer armed
clearNothing(S, h) == S

\* clearTimeout(handle) / clearInterval(handle): either disarms the handle
clearHandle(S, h) == [S EXCEPT !.host = Without(@, h)]

\* a cancelTimer that reports success for every id
cancelTimerAlwaysOk(S, id, react) ==
    LET S1 == IF id \in Live(S)
              THEN [clearHandle(S, S.timers[id].handle) EXCEPT !.timers = Without(@, id)]
              ELSE S
        e == emit(S1, EvCanceled(id, TRUE), react)
    IN [s |-> e.s, ok |-> TRUE, thrown |-> e.thrown]

(***************************************************************************)
(* cancelTimer(id) as a function of the state: r.ok is the ok of the       *)
(* emitted event, r.thrown whether a listener's exception left emit.       *)
(***************************************************************************)
cancelTimerIn(S, id, react) ==
    IF id \notin Live(S)
    THEN LET e == emit(S, EvCanceled(id, FALSE), react)
         IN [s |-> e.s, ok |-> FALSE, thrown |-> e.thrown]
    ELSE LET S1 == clearHandle(clearHandle(S, S.timers[id].handle), S.timers[id].handle)
             S2 == [S1 EXCEPT !.timers = Without(@, id)]
             e == emit(S2, EvCanceled(id, TRUE), react)
         IN [s |-> e.s, ok |-> TRUE, thrown |-> e.thrown]

(***************************************************************************)
(* emit(event): the listeners are invoked in insertion order; a listener   *)
(* that throws ends the loop and the exception leaves emit.  A listener    *)
(* called with an event records listTimers() (seen), then reacts.  Calls   *)
(* made from inside a listener are delivered to listeners that return.     *)
(***************************************************************************)
emitTo(S, ev, ls, react) ==
    IF ls = <<>>
    THEN [s |-> S, thrown |-> FALSE]
    ELSE LET l == Head(ls)
             S1 == [S EXCEPT !.last = Append(@, [l |-> l, type |-> ev.type, id |-> ev.id,
                                                 ok |-> ev.ok, mode |-> ev.timer.mode,
                                                 seen |-> listTimers(S), at |-> ev.at])]
             S1r == [S1 EXCEPT !.reacts = @ + 1]
         IN IF react[l] = "throw"
            THEN [s |-> S1r, thrown |-> TRUE]
            ELSE IF react[l] = "cancel"
            THEN LET c == cancelTimerIn(Log(S1r, Entry("call", l, "cancelTimer", ev.id,
                                                       FALSE, 0, NoInfo)),
                                        ev.id, Quiet)
                     S2 == Log(c.s, Entry("return", l, "cancelTimer", ev.id, c.ok, 0,
                                          NoInfo))
                 IN emitTo(S2, ev, Tail(ls), react)
            ELSE emitTo(S1, ev, Tail(ls), react)

emit(S, ev, react) ==
    LET S1 == Log(S, Entry("emit", 0, ev.type, ev.id, ev.ok, ev.firedAt, ev.timer))
    IN emitTo(S1, [type |-> ev.type, id |-> ev.id, ok |-> ev.ok, firedAt |-> ev.firedAt,
                   timer |-> ev.timer, at |-> Len(S1.trace)],
              listeners, react)

\* a host handle: the timer whose closure it runs, and which host call armed it
Handle(id, kind) == [tid |-> id, kind |-> kind]

\* setTimeout(cb, delay) / setInterval(cb, period) called at clock value t
\* (every: the everyMs captured by the callback's closure, 0 for a once timer)
setTimeout(S, h, cb, delay, every) ==
    [S EXCEPT !.host = With(@, h, [due |-> S.clock + delay, period |-> 0,
                                   cb |-> cb, every |-> every])]
setInterval(S, h, cb, period) ==
    [S EXCEPT !.host = With(@, h, [due |-> S.clock + period, period |-> period,
                                   cb |-> cb, every |-> period])]

\* safeNow() read lag milliseconds after the previous read of the clock
Elapse(S, lag) == [S EXCEPT !.clock = @ + lag]

\* a createOnceTimer that takes runAt as it is given
createOnceTimerUnclamped(S, id, input, lag, react) ==
    LET createdAt == S.clock
        nextRunAt == input.runAt
        info == [id |-> id, mode |-> "once", createdAt |-> createdAt,
                 nextRunAt |-> nextRunAt, everyMs |-> Absent, lastRunAt |-> Absent,
                 task |-> input.task]
        S1 == Elapse(S, lag)
        delay == clampMin(nextRunAt - S1.clock, 0)
        h == Handle(id, "timeout")
        S2 == setTimeout(S1, h, "once", delay, 0)
        S3 == [S2 EXCEPT !.timers = With(@, id, [info |-> info, handle |-> h])]
        e == emit(S3, EvCreated(info), react)
    IN [s |-> e.s, thrown |-> e.thrown, info |-> info]

(***************************************************************************)
(* createOnceTimer(input): lines 101-137.                                  *)
(***************************************************************************)
createOnceTimer(S, id, input, lag, react) ==
    LET createdAt == S.clock
        nextRunAt == clampMin(input.runAt, createdAt)
        info == [id |-> id, mode |-> "once", createdAt |-> createdAt,
                 nextRunAt |-> nextRunAt, everyMs |-> Absent, lastRunAt |-> Absent,
                 task |-> input.task]
        S1 == Elapse(S, lag)
        delay == clampMin(nextRunAt - S1.clock, 0)
        h == Handle(id, "timeout")
        S2 == setTimeout(S1, h, "once", delay, 0)
        S3 == [S2 EXCEPT !.timers = With(@, id, [info |-> info, handle |-> h])]
        e == emit(S3, EvCreated(info), react)
    IN [s |-> e.s, thrown |-> e.thrown, info |-> info]

\* a createIntervalTimer without the floor of everyMs
createIntervalTimerRaw(S, id, input, lag, react) ==
    LET createdAt == S.clock
        everyMs == input.everyMs
        startAt == IF input.startAt = Absent THEN createdAt ELSE Get(input.startAt)
        info == [id |-> id, mode |-> "interval", createdAt |-> createdAt,
                 nextRunAt |-> clampMin(startAt, createdAt), everyMs |-> Some(everyMs),
                 lastRunAt |-> Absent, task |-> input.task]
        S1 == Elapse(S, lag)
        firstDelay == clampMin(info.nextRunAt - S1.clock, 0)
        h == Handle(id, "timeout")
        S2 == setTimeout(S1, h, "first", firstDelay, everyMs)
        S3 == [S2 EXCEPT !.timers = With(@, id, [info |-> info, handle |-> h])]
        e == emit(S3, EvCreated(info), react)
    IN [s |-> e.s, thrown |-> e.thrown, info |-> info]

(***************************************************************************)
(* createIntervalTimer(input): lines 142-197.  everyMs is an integer, so   *)
(* Math.floor leaves it unchanged.                                         *)
(***************************************************************************)
createIntervalTimer(S, id, input, lag, react) ==
    LET createdAt == S.clock
        everyMs == clampMin(input.everyMs, MinEveryMs)
        startAt == IF input.startAt = Absent THEN createdAt ELSE Get(input.startAt)
        info == [id |-> id, mode |-> "interval", createdAt |-> createdAt,
                 nextRunAt |-> clampMin(startAt, createdAt), everyMs |-> Some(everyMs),
                 lastRunAt |-> Absent, task |-> input.task]
        S1 == Elapse(S, lag)
        firstDelay == clampMin(info.nextRunAt - S1.clock, 0)
        h == Handle(id, "timeout")
        S2 == setTimeout(S1, h, "first", firstDelay, everyMs)
        S3 == [S2 EXCEPT !.timers = With(@, id, [info |-> info, handle |-> h])]
        e == emit(S3, EvCreated(info), react)
    IN [s |-> e.s, thrown |-> e.thrown, info |-> info]

\* createTimer(input): lines 202-205
createTimer(S, id, input, lag, react) ==
    IF input.mode = "once"
    THEN createOnceTimer(S, id, input, lag, react)
    ELSE createIntervalTimer(S, id, input, lag, react)

\* a firing hook without its catch block
runAndEmitNoCatch(S, id, info, firedAt, react, react2) ==
    IF runTaskThrows(info.task)
    THEN [s |-> S, thrown |-> TRUE]
    ELSE LET S1 == IF info.task.type = "log"
                   THEN Log(S, Entry("console", 0, "log", id, FALSE, firedAt, NoInfo))
                   ELSE S
         IN emit(S1, EvFired(info, firedAt), react)

(***************************************************************************)
(* The try / catch of a firing hook (lines 123-128, 170-176, 185-191):     *)
(* runTask, then emit timer.fired; an exception thrown by runTask or by a  *)
(* listener of timer.fired is caught and timer.error is emitted, whose     *)
(* listeners (react2) may throw out of the catch block.                    *)
(***************************************************************************)
runAndEmit(S, id, info, firedAt, react, react2) ==
    IF runTaskThrows(info.task)
    THEN emit(S, EvError(id), react)
    ELSE LET S1 == IF info.task.type = "log"
                   THEN Log(S, Entry("console", 0, "log", id, FALSE, firedAt, NoInfo))
                   ELSE S
             e == emit(S1, EvFired(info, firedAt), react)
         IN IF e.thrown THEN emit(e.s, EvError(id), react2) ELSE e

\* existing.info.lastRunAt = firedAt; existing.info.nextRunAt = next
stamp(S, id, firedAt, next) ==
    Log([S EXCEPT !.timers[id].info.lastRunAt = Some(firedAt),
                  !.timers[id].info.nextRunAt = next],
        Entry("hook", 0, S.timers[id].info.mode, id, FALSE, firedAt, NoInfo))

\* a once hook without its finally block
onceHookKeeps(S, id, lag, react, react2) ==
    IF id \notin Live(S)
    THEN [s |-> S, thrown |-> FALSE]
    ELSE LET firedAt == S.clock + lag
             S1 == stamp(Elapse(S, lag), id, firedAt, firedAt)
         IN runAndEmit(S1, id, S1.timers[id].info, firedAt, react, react2)

(***************************************************************************)
(* The callback given to setTimeout by createOnceTimer (lines 115-132).    *)
(***************************************************************************)
onceHook(S, id, lag, react, react2) ==
    IF id \notin Live(S)
    THEN [s |-> S, thrown |-> FALSE]
    ELSE LET firedAt == S.clock + lag
             S1 == stamp(Elapse(S, lag), id, firedAt, firedAt)
             r == runAndEmit(S1, id, S1.timers[id].info, firedAt, react, react2)
         IN [s |-> [r.s EXCEPT !.timers = Without(@, id)], thrown |-> r.thrown]

\* a tick that computes nextRunAt from the time the callback started
tickHookFromStart(S, id, everyMs, lag, react, react2) ==
    IF id \notin Live(S)
    THEN [s |-> S, thrown |-> FALSE]
    ELSE LET firedAt == S.clock + lag
             S1 == stamp(Elapse(S, lag), id, firedAt, S.clock + everyMs)
         IN runAndEmit(S1, id, S1.timers[id].info, firedAt, react, react2)

(***************************************************************************)
(* The callback given to setInterval (lines 162-177).                      *)
(***************************************************************************)
tickHook(S, id, everyMs, lag, react, react2) ==
    IF id \notin Live(S)
    THEN [s |-> S, thrown |-> FALSE]
    ELSE LET firedAt == S.clock + lag
             S1 == stamp(Elapse(S, lag), id, firedAt, firedAt + everyMs)
         IN runAndEmit(S1, id, S1.timers[id].info, firedAt, react, react2)

\* a first firing that arms no repeating host timer
firstHookNoInterval(S, id, everyMs, lag, react, react2) ==
    IF id \notin Live(S)
    THEN [s |-> S, thrown |-> FALSE]
    ELSE LET firedAt == S.clock + lag
             S3 == stamp(Elapse(S, lag), id, firedAt, firedAt + everyMs)
         IN runAndEmit(S3, id, S3.timers[id].info, firedAt, react, react2)

(***************************************************************************)
(* The callback given to setTimeout by createIntervalTimer (lines          *)
(* 158-192): arms the interval, stores its handle, then fires.             *)
(***************************************************************************)
firstHook(S, id, everyMs, lag, react, react2) ==
    IF id \notin Live(S)
    THEN [s |-> S, thrown |-> FALSE]
    ELSE LET ih == Handle(id, "interval")
             S1 == setInterval(S, ih, "tick", everyMs)
             S2 == [S1 EXCEPT !.timers[id].handle = ih]
             firedAt == S2.clock + lag
             S3 == stamp(Elapse(S2, lag), id, firedAt, firedAt + everyMs)
         IN runAndEmit(S3, id, S3.timers[id].info, firedAt, react, react2)

(***************************************************************************)
(* The host runs the callback of an armed handle that is due.  A timeout   *)
(* is disarmed when it runs; an interval is re-armed one period after the  *)
(* start of this run unless the callback clears it.                        *)
(***************************************************************************)
runHandle(S, h, lag, react, react2) ==
    LET t == S.host[h]
        S0 == IF t.period > 0
              THEN [S EXCEPT !.host[h].due = S.clock + t.period]
              ELSE clearHandle(S, h)
    IN CASE t.cb = "once" -> onceHook(S0, h.tid, lag, react, react2)
         [] t.cb = "first" -> firstHook(S0, h.tid, t.every, lag, react, react2)
         [] t.cb = "tick" -> tickHook(S0, h.tid, t.every, lag, react, react2)

TypeOK ==
    /\ now \in 0..MaxTime
    /\ nextId \in 0..MaxTimers
    /\ DOMAIN timers \subseteq TimerIds

Init ==
    /\ now = 0
    /\ timers = <<>>
    /\ host = <<>>
    /\ listeners = <<>>
    /\ nextId = 0
    /\ calls = 0
    /\ reacts = 0
    /\ trace = <<>>
    /\ last = <<>>
    /\ held = <<>>
    /\ clients = <<>>
    /\ conn = <<>>
    /\ callers = <<>>

Commit(S) ==
    /\ now' = S.clock
    /\ timers' = S.timers
    /\ host' = S.host
    /\ trace' = S.trace
    /\ last' = S.last
    /\ reacts' = S.reacts
    /\ S.reacts <= MaxReacts

\* reactions of the registered listeners to the event of one emit
Reacts == {r \in [ListenerIds -> Reactions] :
             \A l \in ListenerIds :
                (\A i \in 1..Len(listeners) : listeners[i] # l) => r[l] = "return"}

(***************************************************************************)
(* Inputs of createTimer at clock value t: runAt / startAt in the past,    *)
(* present, future or omitted; everyMs below, at and above the floor; each *)
(* kind of task with either mode.                                          *)
(***************************************************************************)
Notify == [type |-> "notify", data |-> "undefined"]
LogPlain == [type |-> "log", data |-> "plain"]
LogCyclic == [type |-> "log", data |-> "cyclic"]

OnceInputs(t) ==
    {[mode |-> "once", runAt |-> t - 3, task |-> LogPlain],
     [mode |-> "once", runAt |-> t, task |-> LogCyclic],
     [mode |-> "once", runAt |-> t + 7, task |-> Notify]}
IntervalInputs(t) ==
    {[mode |-> "interval", everyMs |-> 10, startAt |-> Absent, task |-> Notify],
     [mode |-> "interval", everyMs |-> 50, startAt |-> Some(t - 3), task |-> LogPlain],
     [mode |-> "interval", everyMs |-> 53, startAt |-> Some(t + 5), task |-> LogCyclic]}

(***************************************************************************)
(* onEvent(listener) and the unsubscribe function it returns (57-60).      *)
(***************************************************************************)
InList(l) == \E i \in 1..Len(listeners) : listeners[i] = l

OnEvent(l) ==
    /\ calls < MaxCalls
    /\ ~InList(l)
    /\ listeners' = Append(listeners, l)
    /\ calls' = calls + 1
    /\ UNCHANGED <<now, timers, host, nextId, reacts, trace, last, outside>>

Unsubscribe(l) ==
    /\ calls < MaxCalls
    /\ InList(l)
    /\ listeners' = SelectSeq(listeners, LAMBDA x : x # l)
    /\ calls' = calls + 1
    /\ UNCHANGED <<now, timers, host, nextId, reacts, trace, last, outside>>

(***************************************************************************)
(* A call of createTimer(input) by a client of the scheduler.              *)
(***************************************************************************)
CreateTimer(input, lag, react) ==
    /\ calls < MaxCalls
    /\ nextId < MaxTimers
    /\ now + lag <= MaxTime
    /\ LET id == nextId + 1
           r == createTimer(Log(State, Entry("call", 0, "createTimer", id, FALSE, 0, input)),
                            id, input, lag, react)
       IN /\ Commit(Log(r.s, Entry(IF r.thrown THEN "raise" ELSE "return", 0,
                                   "createTimer", id, FALSE, 0,
                                   IF r.thrown THEN NoInfo ELSE r.info)))
          /\ nextId' = id
    /\ calls' = calls + 1
    /\ UNCHANGED <<listeners, outside>>

(***************************************************************************)
(* A call of cancelTimer(id) by a client of the scheduler.                 *)
(***************************************************************************)
CancelTimer(id, react) ==
    /\ calls < MaxCalls
    /\ LET r == cancelTimerIn(Log(State, Entry("call", 0, "cancelTimer", id, FALSE, 0,
                                                NoInfo)), id, react)
       IN Commit(Log(r.s, Entry(IF r.thrown THEN "raise" ELSE "return", 0,
                                "cancelTimer", id, r.ok, 0, NoInfo)))
    /\ calls' = calls + 1
    /\ UNCHANGED <<listeners, nextId, outside>>

(***************************************************************************)
(* The host runs a due callback.                                           *)
(***************************************************************************)
HostFire(h, lag, react, react2) ==
    /\ h \in DOMAIN host
    /\ now >= host[h].due
    /\ now + lag <= MaxTime
    /\ LET r == runHandle(State, h, lag, react, react2)
       IN Commit(IF r.thrown
                 THEN Log(r.s, Entry("uncaught", 0, "hook", h.tid, FALSE, 0, NoInfo))
                 ELSE r.s)
    /\ UNCHANGED <<listeners, nextId, calls, outside>>

(***************************************************************************)
(* Time passes while the process is idle, up to the next armed timer.      *)
(***************************************************************************)
Tick ==
    /\ \E h \in DOMAIN host :
          /\ host[h].due > now
          /\ host[h].due <= MaxTime
          /\ now' = host[h].due
    /\ UNCHANGED <<timers, host, listeners, nextId, calls, reacts, trace, last, outside>>

(***************************************************************************)
(* Spec: the scheduler with its listeners; handlers run in no time.        *)
(***************************************************************************)
Next ==
    \/ \E l \in ListenerIds : OnEvent(l)
    \/ \E l \in ListenerIds : Unsubscribe(l)
    \/ \E input \in OnceInputs(now) \cup IntervalInputs(now), react \in Reacts :
          CreateTimer(input, 0, react)
    \/ \E id \in (1..nextId) \cup {UnknownId}, react \in Reacts : CancelTimer(id, react)
    \/ \E h \in DOMAIN host, react \in Reacts, react2 \in Reacts :
          HostFire(h, 0, react, react2)
    \/ Tick

Spec == Init /\ [][Next]_vars

(***************************************************************************)
(* TimedSpec: the scheduler without listeners; the clock advances while a  *)
(* handler runs.                                                           *)
(***************************************************************************)
TimedNext ==
    \/ \E input \in OnceInputs(now) \cup IntervalInputs(now), lag \in 0..MaxLag :
          CreateTimer(input, lag, Quiet)
    \/ \E id \in (1..nextId) \cup {UnknownId} : CancelTimer(id, Quiet)
    \/ \E h \in DOMAIN host, lag \in 0..MaxLag : HostFire(h, lag, Quiet, Quiet)
    \/ Tick

TimedSpec == Init /\ [][TimedNext]_vars

(***************************************************************************)
(* Vocabulary of the properties: positions of the history.                 *)
(***************************************************************************)
Idx == 1..Len(trace)
Emitted(i, type, id) ==
    trace[i].k = "emit" /\ trace[i].type = type /\ trace[i].id = id
CancelOk(i, id) ==
    trace[i].k = "emit" /\ trace[i].type = "timer.canceled" /\ trace[i].id = id
    /\ trace[i].ok
ReturnedTrue(i, id) ==
    trace[i].k = "return" /\ trace[i].type = "cancelTimer" /\ trace[i].id = id
    /\ trace[i].ok
HookRan(i, id) == trace[i].k = "hook" /\ trace[i].id = id
Hooks(id) == {i \in Idx : HookRan(i, id)}
CreatedAs(id, mode) ==
    \E i \in Idx : Emitted(i, "timer.created", id) /\ trace[i].timer.mode = mode

(***************************************************************************)
(* C1.  Once cancelTimer(id) has returned true, no timer.fired and no      *)
(* timer.error event for that id is emitted afterwards.                    *)
(***************************************************************************)
C1_NoEventAfterCancel ==
    \A i \in Idx, j \in Idx, id \in TimerIds :
       (i < j /\ ReturnedTrue(i, id))
          => ~(Emitted(j, "timer.fired", id) \/ Emitted(j, "timer.error", id))

(***************************************************************************)
(* C4.  Whenever a listener is invoked, listTimers() called inside it      *)
(* contains the timer on timer.created (unless a listener invoked before   *)
(* it for the same event has cancelled the timer), does not contain the id *)
(* on timer.canceled{ok:true}, and does not contain the timer on           *)
(* timer.fired of a once timer.                                            *)
(***************************************************************************)
C4_ListenerSeesMutation ==
    \A n \in 1..Len(last) :
       /\ last[n].type = "timer.created"
             => \/ last[n].id \in last[n].seen
                \/ \E m \in 1..(n - 1) : /\ last[m].type = "timer.canceled"
                                         /\ last[m].id = last[n].id
                                         /\ last[m].ok
       /\ (last[n].type = "timer.canceled" /\ last[n].ok)
             => last[n].id \notin last[n].seen
       /\ (last[n].type = "timer.fired" /\ last[n].mode = "once")
             => last[n].id \notin last[n].seen

(***************************************************************************)
(* C5.  For no id of a once timer are both a timer.fired event and a       *)
(* timer.canceled{ok:true} event emitted.                                  *)
(***************************************************************************)
C5_OneTerminalState ==
    \A id \in TimerIds :
       CreatedAs(id, "once")
          => ~(/\ \E i \in Idx : Emitted(i, "timer.fired", id)
               /\ \E j \in Idx : CancelOk(j, id))

(***************************************************************************)
(* C3.  A once timer fires at most once, and after its firing hook has     *)
(* returned its id is absent from listTimers(), both when the task's side  *)
(* effect succeeded (timer.fired emitted) and when it threw (timer.error   *)
(* emitted).                                                               *)
(***************************************************************************)
C3_OnceFiresOnce ==
    \A id \in TimerIds :
       CreatedAs(id, "once")
          => /\ Cardinality(Hooks(id)) <= 1
             /\ Cardinality({i \in Idx : Emitted(i, "timer.fired", id)}) <= 1
             /\ Hooks(id) # {} => id \notin listTimers(State)

\* two once timers have fired, one with timer.fired and one whose task threw
C3_Witness ==
    \E a \in TimerIds, b \in TimerIds :
       /\ CreatedAs(a, "once") /\ CreatedAs(b, "once")
       /\ Hooks(a) # {} /\ Hooks(b) # {}
       /\ \E i \in Idx : Emitted(i, "timer.fired", a)
       /\ \A i \in Idx : ~Emitted(i, "timer.error", a)
       /\ \E i \in Idx : Emitted(i, "timer.error", b)
       /\ \A i \in Idx : ~Emitted(i, "timer.fired", b)
       /\ listTimers(State) = {}

(***************************************************************************)
(* C6 as stated.  For every id the timer.created event for that id         *)
(* precedes every timer.fired and every timer.canceled event carrying that *)
(* id.                                                                     *)
(***************************************************************************)
C6_CreatedPrecedesAll ==
    \A j \in Idx :
       (trace[j].k = "emit" /\ trace[j].type \in {"timer.fired", "timer.canceled"})
          => \E i \in 1..(j - 1) : Emitted(i, "timer.created", trace[j].id)

(***************************************************************************)
(* C6 amended.  For every id the timer.created event for that id precedes  *)
(* every timer.fired and every timer.canceled{ok:true} event carrying that *)
(* id; a timer.canceled{ok:false} may carry an id that was never created.  *)
(***************************************************************************)
C6_CreatedPrecedesLive ==
    \A j \in Idx :
       (/\ trace[j].k = "emit"
        /\ \/ trace[j].type = "timer.fired"
           \/ trace[j].type = "timer.canceled" /\ trace[j].ok)
          => \E i \in 1..(j - 1) : Emitted(i, "timer.created", trace[j].id)

\* a timer was created, fired, then canceled; an unknown id was canceled too
C6_Witness ==
    /\ \E id \in TimerIds, i \in Idx, j \in Idx, k \in Idx :
          /\ i < j /\ j < k
          /\ Emitted(i, "timer.created", id)
          /\ Emitted(j, "timer.fired", id)
          /\ CancelOk(k, id)
    /\ \E n \in Idx : Emitted(n, "timer.canceled", UnknownId) /\ ~trace[n].ok

(***************************************************************************)
(* FairSpec: Spec with a fair host.  The clock does not stop while a host  *)
(* timer is armed for a later time, and a host timer that is due and stays *)
(* armed has its callback run: weak fairness of the callback's run, with   *)
(* the condition Due(h) under which the host can run it written out.  A    *)
(* callback can run with some reaction of the listeners exactly when it    *)
(* can run with Quiet, and every run of it disarms or re-arms its handle,  *)
(* so fairness of the run with Quiet is fairness of the run whatever the   *)
(* listeners do.                                                           *)
(***************************************************************************)
Handles == {Handle(id, kind) : id \in TimerIds, kind \in {"timeout", "interval"}}
Due(h) == h \in DOMAIN host /\ now >= host[h].due
HostFair(h) == []<>~Due(h) \/ []<><<HostFire(h, 0, Quiet, Quiet)>>_vars

FairSpec ==
    /\ Spec
    /\ WF_vars(Tick)
    /\ \A h \in Handles : HostFair(h)

\* the input of the createTimer call that was given id
InputOf(id) ==
    trace[CHOOSE i \in Idx : trace[i].k = "call" /\ trace[i].type = "createTimer"
                             /\ trace[i].id = id].timer
Called(id) ==
    \E i \in Idx : trace[i].k = "call" /\ trace[i].type = "createTimer" /\ trace[i].id = id
LastOf(S) == CHOOSE i \in S : \A j \in S : j <= i

(***************************************************************************)
(* C7.  For every interval timer, any two consecutive timer.fired events   *)
(* for its id have firedAt timestamps at least everyMs apart: no firing    *)
(* happens before the nextRunAt set by the previous firing.                *)
(***************************************************************************)
C7_FiringsSpaced ==
    \A id \in TimerIds, i \in Idx, j \in Idx :
       (/\ i < j
        /\ Emitted(i, "timer.fired", id) /\ Emitted(j, "timer.fired", id)
        /\ trace[i].timer.mode = "interval"
        /\ \A m \in (i + 1)..(j - 1) : ~Emitted(m, "timer.fired", id))
          => /\ trace[j].firedAt >= trace[i].firedAt + Get(trace[i].timer.everyMs)
             /\ trace[j].firedAt >= trace[i].timer.nextRunAt

(***************************************************************************)
(* C8.  For every live interval timer lastRunAt is absent until its first  *)
(* firing, and after any firing lastRunAt is the firedAt of the most       *)
(* recent firing (also when the task threw) and nextRunAt = lastRunAt +    *)
(* everyMs.  The timer.fired snapshot of a once timer carries lastRunAt =  *)
(* nextRunAt = firedAt.                                                    *)
(***************************************************************************)
C8_RunStamps ==
    /\ \A id \in DOMAIN timers :
          LET info == timers[id].info
          IN info.mode = "interval"
                => IF Hooks(id) = {}
                   THEN info.lastRunAt = Absent
                   ELSE /\ info.lastRunAt = Some(trace[LastOf(Hooks(id))].firedAt)
                        /\ info.nextRunAt = Get(info.lastRunAt) + Get(info.everyMs)
    /\ \A i \in Idx :
          (trace[i].k = "emit" /\ trace[i].type = "timer.fired"
           /\ trace[i].timer.mode = "once")
             => /\ trace[i].timer.lastRunAt = Some(trace[i].firedAt)
                /\ trace[i].timer.nextRunAt = trace[i].firedAt

\* a live interval timer whose task throws has fired twice, the second time
\* later than the host ran the callback; a once timer has emitted timer.fired
C8_Witness ==
    /\ \E id \in DOMAIN timers :
          /\ timers[id].info.mode = "interval"
          /\ runTaskThrows(timers[id].info.task)
          /\ Cardinality(Hooks(id)) >= 2
          /\ Get(timers[id].info.lastRunAt) > host[timers[id].handle].due
                                              - Get(timers[id].info.everyMs)
    /\ \E i \in Idx : /\ trace[i].k = "emit" /\ trace[i].type = "timer.fired"
                      /\ trace[i].timer.mode = "once"

(***************************************************************************)
(* C9.  For every integer everyMs given to createTimer with mode interval  *)
(* the created timer's everyMs equals max(50, everyMs), so every interval  *)
(* timer in the live set has everyMs >= 50, and the period used to         *)
(* schedule its firings is that clamped value.                             *)
(***************************************************************************)
C9_EveryMsClamped ==
    /\ \A i \in Idx :
          (trace[i].k = "emit" /\ trace[i].type = "timer.created"
           /\ trace[i].timer.mode = "interval")
             => LET given == InputOf(trace[i].id).everyMs
                IN trace[i].timer.everyMs = Some(IF given > 50 THEN given ELSE 50)
    /\ \A id \in DOMAIN timers :
          LET info == timers[id].info
              armed == host[timers[id].handle]
          IN info.mode = "interval"
                => /\ Get(info.everyMs) >= 50
                   /\ Get(info.everyMs) >= InputOf(id).everyMs
                   /\ armed.every = Get(info.everyMs)
                   /\ timers[id].handle.kind = "interval"
                         => armed.period = Get(info.everyMs)

\* an interval timer created with an everyMs below the floor is live and its
\* repeating host timer is armed
C9_Witness ==
    \E id \in DOMAIN timers :
       /\ timers[id].info.mode = "interval"
       /\ InputOf(id).everyMs < 50
       /\ timers[id].handle.kind = "interval"
       /\ Cardinality(Hooks(id)) >= 2

(***************************************************************************)
(* C10.  A timer never fires before it is created: for every runAt /       *)
(* startAt the created timer has nextRunAt = max(requested time,           *)
(* createdAt) >= createdAt, and every timer.fired event for it has firedAt *)
(* >= createdAt and firedAt >= that initial nextRunAt.                     *)
(***************************************************************************)
Requested(input, createdAt) ==
    IF input.mode = "once" THEN input.runAt
    ELSE IF input.startAt = Absent THEN createdAt ELSE Get(input.startAt)

C10_NeverBeforeCreation ==
    \A i \in Idx :
       (trace[i].k = "emit" /\ trace[i].type = "timer.created")
          => LET t == trace[i].timer
                 req == Requested(InputOf(t.id), t.createdAt)
             IN /\ t.nextRunAt = IF req > t.createdAt THEN req ELSE t.createdAt
                /\ t.nextRunAt >= t.createdAt
                /\ \A j \in Idx :
                      Emitted(j, "timer.fired", t.id)
                         => /\ trace[j].firedAt >= t.createdAt
                            /\ trace[j].firedAt >= t.nextRunAt

\* a timer asked for a time in the past and a timer asked for a time in the
\* future have both emitted timer.fired
C10_Witness ==
    \E a \in TimerIds, b \in TimerIds :
       /\ Called(a) /\ Called(b)
       /\ \E i \in Idx :
             /\ Emitted(i, "timer.created", a)
             /\ Requested(InputOf(a), trace[i].timer.createdAt) < trace[i].timer.createdAt
       /\ \E j \in Idx :
             /\ Emitted(j, "timer.created", b)
             /\ Requested(InputOf(b), trace[j].timer.createdAt) > trace[j].timer.createdAt
       /\ \E m \in Idx : Emitted(m, "timer.fired", a)
       /\ \E n \in Idx : Emitted(n, "timer.fired", b)

(***************************************************************************)
(* C2.  Under fairness of the host timing primitive every timer that is    *)
(* never canceled eventually fires.  An interval timer stays in            *)
(* listTimers() until it is canceled.  A live timer whose nextRunAt lies   *)
(* within the horizon MaxTime and that has produced n firing events        *)
(* produces one more or is canceled; the firing event is timer.fired, or   *)
(* timer.error for a task whose side effect throws.                        *)
(***************************************************************************)
Firings == 0..(MaxTime \div MinEveryMs + 1)
Produced(id) ==
    IF runTaskThrows(InputOf(id).task)
    THEN {i \in Idx : Emitted(i, "timer.error", id)}
    ELSE {i \in Idx : Emitted(i, "timer.fired", id)}
Canceled(id) == \E i \in Idx : CancelOk(i, id)
Pending(id, n) ==
    /\ id \in listTimers(State)
    /\ timers[id].info.nextRunAt <= MaxTime
    /\ Cardinality(Produced(id)) = n
IntervalsStayListed ==
    \A id \in TimerIds :
       (CreatedAs(id, "interval") /\ ~Canceled(id)) => id \in listTimers(State)

C2_EventuallyFires ==
    /\ []IntervalsStayListed
    /\ \A id \in TimerIds, n \in Firings :
          Pending(id, n) ~> (Called(id) /\ (Cardinality(Produced(id)) > n \/ Canceled(id)))

\* an interval timer that was never canceled has produced two firing events
\* and is still listed; a once timer has produced its firing event
C2_Witness ==
    \E a \in TimerIds, b \in TimerIds :
       /\ CreatedAs(a, "interval") /\ ~Canceled(a)
       /\ Cardinality(Produced(a)) >= 2
       /\ a \in listTimers(State)
       /\ CreatedAs(b, "once") /\ ~Canceled(b)
       /\ Cardinality(Produced(b)) = 1

(***************************************************************************)
(* Vocabulary of the properties of one handler: the entries it appends to  *)
(* the history.  An emit made by a call that a listener makes belongs to   *)
(* that call; the other emits are the handler's own.                       *)
(***************************************************************************)
New == (Len(trace) + 1)..Len(trace')
Starts(k, type, id) ==
    /\ Len(trace') > Len(trace)
    /\ trace'[Len(trace) + 1].k = k
    /\ trace'[Len(trace) + 1].type = type
    /\ trace'[Len(trace) + 1].id = id
    /\ trace'[Len(trace) + 1].l = 0
Ends == trace'[Len(trace')]
OwnEmits(types) ==
    {i \in New : /\ trace'[i].k = "emit"
                 /\ trace'[i].type \in types
                 /\ ~(trace'[i - 1].k = "call" /\ trace'[i - 1].l # 0)}

(***************************************************************************)
(* C11.  cancelTimer(id) for an id that is not in the live set returns     *)
(* false, emits exactly one timer.canceled{id, ok:false}, raises nothing   *)
(* and leaves the timer set and all pending schedules unchanged; in every  *)
(* call the returned boolean equals the ok of the emitted event, and a     *)
(* second cancel of an already canceled id returns false.                  *)
(***************************************************************************)
C11_CancelStep(id) ==
    Starts("call", "cancelTimer", id)
       => /\ id \notin listTimers(State)
             => /\ Ends.k = "return" /\ ~Ends.ok
                /\ Cardinality(OwnEmits({"timer.canceled"})) = 1
                /\ \A i \in OwnEmits({"timer.canceled"}) :
                      trace'[i].id = id /\ ~trace'[i].ok
                /\ timers' = timers
                /\ host' = host
          /\ Ends.k = "return"
             => \A i \in OwnEmits({"timer.canceled"}) : trace'[i].ok = Ends.ok
          /\ Canceled(id) => (Ends.k = "return" /\ ~Ends.ok)

C11_CancelUnknown == [][\A id \in TimerIds \cup {UnknownId} : C11_CancelStep(id)]_vars

(***************************************************************************)
(* C12.  The scheduler's public operations never raise to their caller:    *)
(* for every input and every set of registered listeners createTimer       *)
(* returns a snapshot after having emitted exactly one timer.created for   *)
(* it, and cancelTimer returns normally.                                   *)
(***************************************************************************)
C12_NeverRaises ==
    \A i \in Idx :
       /\ trace[i].k # "raise"
       /\ (trace[i].k = "return" /\ trace[i].type = "createTimer")
             => /\ Cardinality({j \in 1..i : Emitted(j, "timer.created", trace[i].id)}) = 1
                /\ \A j \in 1..i : Emitted(j, "timer.created", trace[i].id)
                                      => trace[j].timer = trace[i].timer

(***************************************************************************)
(* C14.  Each lifecycle transition emits exactly one event: each           *)
(* createTimer call exactly one timer.created, each cancelTimer call       *)
(* exactly one timer.canceled, and each firing of a live timer exactly one *)
(* event that is either timer.fired or timer.error, never both and never   *)
(* none.                                                                   *)
(***************************************************************************)
C14_StepEmitsOne(id) ==
    /\ Starts("call", "createTimer", id)
          => Cardinality(OwnEmits({"timer.created"})) = 1
    /\ Starts("call", "cancelTimer", id)
          => Cardinality(OwnEmits({"timer.canceled"})) = 1
    /\ (Starts("hook", "once", id) \/ Starts("hook", "interval", id))
          => Cardinality(OwnEmits({"timer.fired", "timer.error"})) = 1

C14_OneEventPerTransition ==
    [][\A id \in TimerIds \cup {UnknownId} : C14_StepEmitsOne(id)]_vars

(***************************************************************************)
(* C13.  When a timer's task side effect throws during a firing, the       *)
(* exception is not propagated: timer.error{id} is emitted instead of      *)
(* timer.fired, every other timer's entry and schedule is unchanged, and   *)
(* an interval timer whose task threw stays live and is armed to fire      *)
(* again one period after the callback started.                            *)
(***************************************************************************)
C13_FiringStep(id) ==
    (/\ Starts("hook", "once", id) \/ Starts("hook", "interval", id)
     /\ runTaskThrows(timers[id].info.task))
       => /\ Cardinality(OwnEmits({"timer.error"})) = 1
          /\ \A i \in OwnEmits({"timer.error"}) : trace'[i].id = id
          /\ OwnEmits({"timer.fired"}) = {}
          /\ \A i \in New : trace'[i].k # "uncaught"
          /\ \A o \in DOMAIN timers \ {id} :
                /\ o \in DOMAIN timers'
                /\ timers'[o] = timers[o]
                /\ timers[o].handle \in DOMAIN host'
                /\ host'[timers[o].handle] = host[timers[o].handle]
          /\ timers[id].info.mode = "interval"
                => /\ id \in DOMAIN timers'
                   /\ timers'[id].handle.kind = "interval"
                   /\ timers'[id].handle \in DOMAIN host'
                   /\ host'[timers'[id].handle].period = Get(timers[id].info.everyMs)
                   /\ host'[timers'[id].handle].due = now + Get(timers[id].info.everyMs)

DeliveredTo(i) ==
    LET d == SelectSeq(last', LAMBDA x : x.at = i)
    IN [n \in 1..Len(d) |-> d[n].l]

C16_HandlerStep ==
    \A i \in New :
       trace'[i].k = "emit"
          => /\ DeliveredTo(i) = listeners
             /\ \A n \in 1..Len(last') :
                   last'[n].at = i => /\ last'[n].type = trace'[i].type
                                      /\ last'[n].id = trace'[i].id

C16_EveryListenerInvoked == [][C16_HandlerStep]_vars

(***************************************************************************)
(* A client calls listTimers() (lines 227-229) and keeps the array.  Each  *)
(* entry is { ...t.info }: a new object with the fields of info copied,    *)
(* the field task holding the same task object as info.task, which is the  *)
(* task object of the createTimer input (lines 111, 154).                  *)
(***************************************************************************)
ListTimers ==
    /\ calls < MaxCalls
    /\ held' = [id \in listTimers(State) |-> timers[id].info]
    /\ trace' = Append(trace, Entry("call", 0, "listTimers", UnknownId, FALSE, 0, NoInfo))
    /\ calls' = calls + 1
    /\ UNCHANGED <<now, timers, host, listeners, nextId, reacts, last, clients, conn, callers>>

\* the client assigns a field of an entry it holds: entry.nextRunAt = -1
SetField(id) ==
    /\ calls < MaxCalls
    /\ id \in DOMAIN held
    /\ held' = [held EXCEPT ![id].nextRunAt = -1]
    /\ trace' = Append(trace, Entry("write", 0, "entry.nextRunAt", id, FALSE, 0, NoInfo))
    /\ calls' = calls + 1
    /\ UNCHANGED <<now, timers, host, listeners, nextId, reacts, last, clients, conn, callers>>

\* the client assigns through an entry it holds: entry.task.data = cyclic.
\* The object written is the task object of the timer, live or not.
SetTaskData(id) ==
    /\ calls < MaxCalls
    /\ id \in DOMAIN held
    /\ held' = [held EXCEPT ![id].task.data = "cyclic"]
    /\ timers' = IF id \in DOMAIN timers
                 THEN [timers EXCEPT ![id].info.task.data = "cyclic"]
                 ELSE timers
    /\ trace' = Append(trace, Entry("write", 0, "entry.task.data", id, FALSE, 0, NoInfo))
    /\ calls' = calls + 1
    /\ UNCHANGED <<now, host, listeners, nextId, reacts, last, clients, conn, callers>>

(***************************************************************************)
(* ListSpec: the scheduler without listeners and a client that lists the   *)
(* timers and writes to what it got.                                       *)
(***************************************************************************)
ListNext ==
    \/ \E input \in OnceInputs(now) \cup IntervalInputs(now) : CreateTimer(input, 0, Quiet)
    \/ \E id \in (1..nextId) \cup {UnknownId} : CancelTimer(id, Quiet)
    \/ \E h \in DOMAIN host : HostFire(h, 0, Quiet, Quiet)
    \/ Tick
    \/ ListTimers
    \/ \E id \in DOMAIN held : SetField(id)
    \/ \E id \in DOMAIN held : SetTaskData(id)

ListSpec == Init /\ [][ListNext]_vars

(***************************************************************************)
(* C15.  The ids of the timers in the live set are pairwise distinct in    *)
(* every reachable state, and listTimers() called right after N            *)
(* createTimer calls (no firing or cancel in between) returns exactly N    *)
(* entries with N distinct ids; listTimers itself changes no timer and     *)
(* emits no event, and changing a returned entry's fields does not change  *)
(* scheduler state.                                                        *)
(***************************************************************************)
OnlyCreates(n) ==
    \A i \in 1..n : trace[i].type \in {"createTimer", "timer.created", "listTimers"}
CreateCalls(n) ==
    {i \in 1..n : trace[i].k = "call" /\ trace[i].type = "createTimer"}

C15_ListStep ==
    /\ \A a \in DOMAIN timers, b \in DOMAIN timers :
          /\ timers[a].info.id = a
          /\ a # b => timers[a].info.id # timers[b].info.id
    /\ Starts("call", "listTimers", UnknownId)
          => /\ timers' = timers /\ host' = host
             /\ \A i \in New : trace'[i].k # "emit"
             /\ OnlyCreates(Len(trace))
                   => /\ Cardinality(DOMAIN held') = Cardinality(CreateCalls(Len(trace)))
                      /\ Cardinality({held'[x].id : x \in DOMAIN held'})
                            = Cardinality(CreateCalls(Len(trace)))
    /\ \A id \in TimerIds :
          (Starts("write", "entry.nextRunAt", id) \/ Starts("write", "entry.task.data", id))
             => timers' = timers /\ host' = host

C15_ListIsSnapshot == [][C15_ListStep]_vars


(***************************************************************************)
(* timerWsServer.ts: the WebSocket service in front of one scheduler.      *)
(*                                                                         *)
(* JSON values a client can put in a field: a number, a non-empty string   *)
(* (v names it: for an id, the timer the string is the id of), the empty   *)
(* string, a value of another type (true, null, an array), or nothing.     *)
(***************************************************************************)
JUndef == [t |-> "undefined", v |-> 0]
JNum(n) == [t |-> "number", v |-> n]
JStr(n) == [t |-> "string", v |-> n]
JEmpty == [t |-> "empty", v |-> 0]
JOther == [t |-> "other", v |-> 0]

\* Number.isFinite(x), typeof x === 'string'
isFinite(j) == j.t = "number"
isString(j) == j.t \in {"string", "empty"}

\* the field task of a timer object: absent, a string, or an object
NoTask == [t |-> "undefined", type |-> "undefined", data |-> "undefined"]
TextTask == [t |-> "string", type |-> "undefined", data |-> "undefined"]
ObjTask(type, data) == [t |-> "object", type |-> type, data |-> data]

\* the field timer of a request: absent, not an object, or an object
RawTimer(t, mode, runAt, everyMs, startAt, task) ==
    [t |-> t, mode |-> mode, runAt |-> runAt, everyMs |-> everyMs,
     startAt |-> startAt, task |-> task]
NoTimer == RawTimer("undefined", "undefined", JUndef, JUndef, JUndef, NoTask)
ScalarTimer == RawTimer("scalar", "undefined", JUndef, JUndef, JUndef, NoTask)

\* the data of a frame: text that is blank, not JSON, or JSON for a value
\* that is a scalar or an object with the fields type, id and timer
Raw(text, json, type, id, timer) ==
    [text |-> text, json |-> json, type |-> type, id |-> id, timer |-> timer]
Object(type, id, timer) == Raw("json", "object", type, id, timer)

(***************************************************************************)
(* Messages of the service, as the peer decodes them.  Fields a message    *)
(* does not have hold UnknownId, FALSE, 0, NoInfo, <<>> or Absent.         *)
(***************************************************************************)
Msg(type, id, ok, at, timer, list, pingId, message, requestType) ==
    [type |-> type, id |-> id, ok |-> ok, at |-> at, timer |-> timer, timers |-> list,
     pingId |-> pingId, message |-> message, requestType |-> requestType]
Hello(clock) == Msg("hello", UnknownId, FALSE, clock, NoInfo, <<>>, Absent, "", Absent)
Pong(id) == Msg("pong", UnknownId, FALSE, 0, NoInfo, <<>>, id, "", Absent)
Error(message, requestType) ==
    Msg("error", UnknownId, FALSE, 0, NoInfo, <<>>, Absent, message, requestType)
\* a timer.list message that lists nothing
EmptyList(S) == Msg("timer.list", UnknownId, FALSE, 0, NoInfo, <<>>, Absent, "", Absent)
TimerList(S) ==
    Msg("timer.list", UnknownId, FALSE, 0, NoInfo,
        [id \in listTimers(S) |-> S.timers[id].info], Absent, "", Absent)

\* mapTimerEvent(event): lines 72-78; e is the entry of the emit
mapTimerEvent(e) ==
    IF e.type = "timer.created"
    THEN Msg("timer.created", UnknownId, FALSE, 0, e.timer, <<>>, Absent, "", Absent)
    ELSE IF e.type = "timer.canceled"
    THEN Msg("timer.canceled", e.id, e.ok, 0, NoInfo, <<>>, Absent, "", Absent)
    ELSE IF e.type = "timer.fired"
    THEN Msg("timer.fired", UnknownId, FALSE, e.firedAt, e.timer, <<>>, Absent, "", Absent)
    ELSE Msg("timer.error", e.id, FALSE, 0, NoInfo, <<>>, Absent, "task", Absent)

(***************************************************************************)
(* send(ws, message): lines 63-66.  readyState is OPEN in the states open, *)
(* dead and failed; in dead and failed the socket under it cannot be       *)
(* written any more.  ws.send() on such a socket returns, the data is      *)
(* lost, and the failure is reported later as a socket error (failed).     *)
(***************************************************************************)
send(C, c, m) ==
    IF C[c].state \notin {"open", "dead", "failed"} THEN C
    ELSE IF C[c].state = "open" THEN [C EXCEPT ![c].inbox = Append(@, m)]
    ELSE [C EXCEPT ![c].state = "failed"]

\* a broadcast that a failed write ends
RECURSIVE broadcastUntilFailure(_, _, _)
broadcastUntilFailure(C, cs, m) ==
    IF cs = <<>> THEN C
    ELSE IF C[Head(cs)].state \in {"dead", "failed"} THEN send(C, Head(cs), m)
    ELSE broadcastUntilFailure(send(C, Head(cs), m), Tail(cs), m)

\* broadcast(message): lines 68-70
RECURSIVE broadcastTo(_, _, _)
broadcastTo(C, cs, m) ==
    IF cs = <<>> THEN C ELSE broadcastTo(send(C, Head(cs), m), Tail(cs), m)
\* a broadcast that writes to the first connection of the set only
broadcastFirst(C, m) == IF clients = <<>> THEN C ELSE send(C, Head(clients), m)
broadcast(C, m) == broadcastTo(C, clients, m)

\* the listener of lines 80-83, run for each of the handler's emits in turn
RECURSIVE deliver(_, _, _)
deliver(C, S, ds) ==
    IF ds = <<>> THEN C
    ELSE deliver(broadcast(C, mapTimerEvent(S.trace[Head(ds).at])), S, Tail(ds))

(***************************************************************************)
(* parseClientMessage(data): lines 209-242.  The result is a request, or   *)
(* null (ok = FALSE).                                                      *)
(***************************************************************************)
Request(ok, type, id, timer) == [ok |-> ok, type |-> type, id |-> id, timer |-> timer]
Null == Request(FALSE, "null", JUndef, NoTimer)

\* a parse that takes every JSON text for a ping
parseAsPing(data) ==
    IF data.text # "json" THEN Null ELSE Request(TRUE, "ping", JUndef, NoTimer)

parseClientMessage(data) ==
    IF data.text # "json" THEN Null
    ELSE IF data.json # "object" THEN Null
    ELSE IF data.type = "ping"
    THEN Request(TRUE, "ping", IF isString(data.id) THEN data.id ELSE JUndef, NoTimer)
    ELSE IF data.type = "timer.list"
    THEN Request(TRUE, "timer.list", JUndef, NoTimer)
    ELSE IF data.type = "timer.cancel"
    THEN IF ~isString(data.id) \/ data.id = JEmpty
         THEN Null
         ELSE Request(TRUE, "timer.cancel", data.id, NoTimer)
    ELSE IF data.type = "timer.create"
    THEN IF data.timer.t # "object"
         THEN Null
         ELSE Request(TRUE, "timer.create", JUndef, data.timer)
    ELSE Null

(***************************************************************************)
(* normalizeTask(task): lines 267-270.  Reading task.type of an absent     *)
(* task throws a TypeError; of a string it gives undefined.                *)
(***************************************************************************)
normalizeTask(task) ==
    IF task.t = "undefined"
    THEN [thrown |-> TRUE, task |-> Notify]
    ELSE IF task.type = "log"
    THEN [thrown |-> FALSE, task |-> [type |-> "log", data |-> task.data]]
    ELSE [thrown |-> FALSE, task |-> [type |-> "notify", data |-> task.data]]

DefaultEveryMs == 1000

(***************************************************************************)
(* normalizeTimerCreateInput(input): lines 247-262, at clock value clock.  *)
(* Field values are integers, so Math.floor leaves them unchanged.         *)
(***************************************************************************)
normalizeTimerCreateInput(input, clock) ==
    LET t == normalizeTask(input.task)
    IN IF input.mode = "once"
       THEN [thrown |-> t.thrown,
             input |-> [mode |-> "once",
                        runAt |-> IF isFinite(input.runAt) THEN input.runAt.v ELSE clock,
                        everyMs |-> 0, startAt |-> Absent, task |-> t.task]]
       ELSE [thrown |-> t.thrown,
             input |-> [mode |-> "interval",
                        runAt |-> 0,
                        everyMs |-> IF isFinite(input.everyMs)
                                    THEN clampMin(input.everyMs.v, MinEveryMs)
                                    ELSE DefaultEveryMs,
                        startAt |-> IF input.startAt # JUndef /\ isFinite(input.startAt)
                                    THEN Some(input.startAt.v)
                                    ELSE Absent,
                        task |-> t.task]]

(***************************************************************************)
(* handleRequest({ws, request}): lines 127-150, for connection c; id is    *)
(* the id createId() gives next.  The scheduler's one listener is the      *)
(* broadcast of lines 80-83, which returns.                                *)
(***************************************************************************)
\* what a request leaves: the scheduler's state, the connections after the
\* broadcasts of its emits, whether it threw, whether createTimer ran
Outcome(S, C, thrown, created) ==
    [s |-> S, conn |-> deliver(C, S, S.last), thrown |-> thrown, created |-> created]

\* lines 140-143, r being what scheduler.cancelTimer(request.id) gave
canceled(C, r, id) ==
    Outcome(Log(r.s, Entry(IF r.thrown THEN "raise" ELSE "return", 0, "cancelTimer", id,
                           r.ok, 0, NoInfo)),
            C, r.thrown, FALSE)

\* lines 145-148, r being what scheduler.createTimer(normalized) gave
created(C, r, id) ==
    Outcome(Log(r.s, Entry(IF r.thrown THEN "raise" ELSE "return", 0, "createTimer", id,
                           FALSE, 0, IF r.thrown THEN NoInfo ELSE r.info)),
            C, r.thrown, TRUE)

handleRequest(S, C, c, request, id) ==
    IF request.type = "ping"
    THEN [s |-> S, conn |-> send(C, c, Pong(IF request.id = JUndef THEN Absent
                                            ELSE Some(request.id))),
          thrown |-> FALSE, created |-> FALSE]
    ELSE IF request.type = "timer.list"
    THEN [s |-> S, conn |-> send(C, c, TimerList(S)), thrown |-> FALSE, created |-> FALSE]
    ELSE IF request.type = "timer.cancel"
    THEN canceled(C, cancelTimerIn(Log(S, Entry("call", 0, "cancelTimer", request.id.v,
                                               FALSE, 0, NoInfo)),
                                   request.id.v, Quiet),
                  request.id.v)
    ELSE LET n == normalizeTimerCreateInput(request.timer, S.clock)
         IN IF n.thrown
            THEN [s |-> S, conn |-> C, thrown |-> TRUE, created |-> FALSE]
            ELSE created(C, createTimer(Log(S, Entry("call", 0, "createTimer", id, FALSE,
                                                     0, NoInfo)),
                                        id, n.input, 0, Quiet),
                         id)

(***************************************************************************)
(* startTimerWsServer(): lines 35-165, with the default path and allowed   *)
(* origins.  conn[c] is the socket of the c-th upgrade request: its        *)
(* readyState, and the messages written to it, oldest first.               *)
(***************************************************************************)
Path == "/ws"
AllowedOrigins == {"http://localhost:3000", "http://127.0.0.1:3000"}
Urls == {Path, "/socket"}
Origins == {"", "http://localhost:3000", "http://evil.example"}

\* an origin check that lets every origin in
isOriginAllowedAny(origin, allowedOrigins) == TRUE

\* isOriginAllowed({origin, allowedOrigins}): lines 200-204
isOriginAllowed(origin, allowedOrigins) ==
    IF origin = "" THEN TRUE ELSE origin \in allowedOrigins

InSet(c) == \E i \in 1..Len(clients) : clients[i] = c
\* a removal that removes nothing
RemoveNone(cs, c) == cs
Remove(cs, c) == SelectSeq(cs, LAMBDA x : x # c)

WsInit ==
    /\ now = 0
    /\ timers = <<>>
    /\ host = <<>>
    /\ listeners = <<1>>
    /\ nextId = 0
    /\ calls = 0
    /\ reacts = 0
    /\ trace = <<>>
    /\ last = <<>>
    /\ held = <<>>
    /\ clients = <<>>
    /\ conn = <<>>
    /\ callers = <<>>

(***************************************************************************)
(* server.on('upgrade') and wss.on('connection'): lines 85-105.            *)
(***************************************************************************)
Upgrade(url, origin) ==
    /\ Len(conn) < MaxConns
    /\ LET c == Len(conn) + 1
           refused == [state |-> "destroyed", inbox |-> <<>>]
           C == Append(conn, [refused EXCEPT !.state = "open"])
       IN IF url # Path \/ ~isOriginAllowed(origin, AllowedOrigins)
          THEN /\ conn' = Append(conn, refused)
               /\ clients' = clients
          ELSE /\ clients' = Append(clients, c)
               /\ conn' = send(send(C, c, Hello(now)), c, TimerList(State))
    /\ UNCHANGED <<now, timers, host, listeners, nextId, calls, reacts, trace, last, held, callers>>

(***************************************************************************)
(* ws.on('message'): lines 107-120.  Respond is lines 113-119, r being     *)
(* what handleRequest did.                                                 *)
(***************************************************************************)
Respond(c, request, r) ==
    /\ r.created => nextId < MaxTimers
    /\ conn' = IF r.thrown
               THEN send(r.conn, c, Error("TypeError", Some(request.type)))
               ELSE r.conn
    /\ Commit(r.s)
    /\ nextId' = IF r.created THEN nextId + 1 ELSE nextId

Message(c, data) ==
    /\ calls < MaxRequests
    /\ c \in 1..Len(conn)
    /\ conn[c].state = "open"
    /\ LET request == parseClientMessage(data)
       IN IF ~request.ok
          THEN /\ conn' = send(conn, c, Error("parse", Absent))
               /\ Commit(State)
               /\ nextId' = nextId
          ELSE Respond(c, request, handleRequest(State, conn, c, request, nextId + 1))
    /\ calls' = calls + 1
    /\ UNCHANGED <<listeners, held, callers, clients>>

(***************************************************************************)
(* The socket of connection c leaves OPEN (a close frame arrived, or its   *)
(* socket reported an error), and later ws.on('close') runs: lines 122-124. *)
(***************************************************************************)
Closing(c) ==
    /\ c \in 1..Len(conn)
    /\ conn[c].state \in {"open", "dead", "failed"}
    /\ conn' = [conn EXCEPT ![c].state = "closing"]
    /\ UNCHANGED <<now, timers, host, listeners, nextId, calls, reacts, trace, last,
                   held, callers, clients>>

Close(c) ==
    /\ c \in 1..Len(conn)
    /\ conn[c].state = "closing"
    /\ conn' = [conn EXCEPT ![c].state = "closed"]
    /\ clients' = Remove(clients, c)
    /\ UNCHANGED <<now, timers, host, listeners, nextId, calls, reacts, trace, last, held, callers>>

(***************************************************************************)
(* The host runs a due callback of the service's scheduler.                *)
(***************************************************************************)
WsHostFire(h) ==
    /\ h \in DOMAIN host
    /\ now >= host[h].due
    /\ LET r == runHandle(State, h, 0, Quiet, Quiet)
       IN /\ Commit(r.s)
          /\ conn' = deliver(conn, r.s, r.s.last)
    /\ UNCHANGED <<listeners, nextId, calls, held, callers, clients>>

(***************************************************************************)
(* Frames a client can send at clock value t.                              *)
(***************************************************************************)
NoFields == Object("undefined", JUndef, NoTimer)
Once(runAt, task) == RawTimer("object", "once", runAt, JUndef, JUndef, task)
Every(everyMs, startAt, task) ==
    RawTimer("object", "interval", JUndef, everyMs, startAt, task)

Unparsable ==
    {Raw("blank", "none", "undefined", JUndef, NoTimer),
     Raw("garbage", "none", "undefined", JUndef, NoTimer),
     Raw("json", "scalar", "undefined", JUndef, NoTimer),
     NoFields,
     Object("foo", JStr(1), NoTimer)}
Pings == {Object("ping", id, NoTimer) : id \in {JStr(1), JNum(1), JUndef}}
Lists == {Object("timer.list", JUndef, NoTimer)}
Cancels ==
    {Object("timer.cancel", JStr(id), NoTimer) : id \in (1..nextId) \cup {UnknownId}}
BadCancels == {Object("timer.cancel", id, NoTimer) : id \in {JUndef, JEmpty, JNum(1)}}
GoodTimers(t) ==
    {Once(JNum(t + 7), ObjTask("notify", "undefined")),
     Every(JNum(10), JNum(t + 5), ObjTask("log", "plain"))}
BadTimers(t) ==
    {NoTimer, ScalarTimer,
     RawTimer("object", "weekly", JNum(t + 7), JNum(50), JUndef, ObjTask("notify", "plain")),
     Once(JNum(t + 7), NoTask),
     Once(JNum(t + 7), TextTask),
     Once(JNum(t + 7), ObjTask("email", "plain")),
     Once(JStr(1), ObjTask("notify", "plain")),
     Every(JStr(1), JUndef, ObjTask("log", "plain"))}
Creates(t) == {Object("timer.create", JUndef, timer) : timer \in GoodTimers(t)}
BadCreates(t) == {Object("timer.create", JUndef, timer) : timer \in BadTimers(t)}
Frames(t) ==
    Unparsable \cup Pings \cup Lists \cup Cancels \cup BadCancels \cup Creates(t)
    \cup BadCreates(t)

WsNext ==
    \/ \E url \in Urls, origin \in Origins : Upgrade(url, origin)
    \/ \E c \in 1..Len(conn), data \in Frames(now) : Message(c, data)
    \/ \E c \in 1..Len(conn) : Closing(c)
    \/ \E c \in 1..Len(conn) : Close(c)
    \/ \E h \in DOMAIN host : WsHostFire(h)
    \/ Tick

WsSpec == WsInit /\ [][WsNext]_vars

(***************************************************************************)
(* Vocabulary of the service's properties: the connections, those a        *)
(* broadcast writes to, what a step wrote to a connection, and the         *)
(* scheduler events a step emitted, in order.                              *)
(***************************************************************************)
Conns == 1..Len(conn)
Listening(c) == InSet(c) /\ conn[c].state = "open"
Written(c) == SubSeq(conn'[c].inbox, Len(conn[c].inbox) + 1, Len(conn'[c].inbox))
NewEmits == SelectSeq(SubSeq(trace', Len(trace) + 1, Len(trace')), LAMBDA e : e.k = "emit")
Carries(m, e) ==
    /\ m.type = e.type
    /\ e.type = "timer.created" => m.timer = e.timer
    /\ e.type = "timer.canceled" => m.id = e.id /\ m.ok = e.ok
    /\ e.type = "timer.fired" => m.timer = e.timer /\ m.at = e.firedAt
    /\ e.type = "timer.error" => m.id = e.id
RequestStep(op) ==
    /\ Len(trace') > Len(trace)
    /\ trace'[Len(trace) + 1].k = "call"
    /\ trace'[Len(trace) + 1].type = op

(***************************************************************************)
(* C17.  Every scheduler event is delivered, as the same message, to       *)
(* every connection that is in the broadcast set and open when the event   *)
(* is emitted: a step of the service that emits scheduler events writes    *)
(* to each such connection one message per event, in order, carrying the   *)
(* event's fields, the same messages to all of them, and nothing to the    *)
(* other connections; a timer.create or timer.cancel request emits one     *)
(* event (timer.created, timer.canceled), so every open connection, the    *)
(* requester included, is written exactly that one message and the         *)
(* requester no other reply.                                               *)
(***************************************************************************)
C17_Step ==
    Len(trace') > Len(trace) =>
       /\ Len(conn') = Len(conn)
       /\ \A c \in Conns :
             IF Listening(c)
             THEN /\ Len(Written(c)) = Len(NewEmits)
                  /\ \A i \in 1..Len(NewEmits) : Carries(Written(c)[i], NewEmits[i])
             ELSE conn'[c].inbox = conn[c].inbox
       /\ \A c, d \in Conns : Listening(c) /\ Listening(d) => Written(c) = Written(d)
       /\ RequestStep("createTimer") =>
             Len(NewEmits) = 1 /\ NewEmits[1].type = "timer.created"
       /\ RequestStep("cancelTimer") =>
             Len(NewEmits) = 1 /\ NewEmits[1].type = "timer.canceled"

C17_BroadcastToAll == [][C17_Step]_vars

\* two open connections whose latest message is the same timer.canceled of
\* a live timer, each having got the timer.created of that timer before
C17_Witness ==
    \E c, d \in Conns :
       /\ c # d
       /\ Listening(c) /\ Listening(d)
       /\ conn[c].inbox # <<>>
       /\ conn[c].inbox[Len(conn[c].inbox)].type = "timer.canceled"
       /\ conn[c].inbox[Len(conn[c].inbox)].ok
       /\ conn[d].inbox # <<>>
       /\ conn[d].inbox[Len(conn[d].inbox)] = conn[c].inbox[Len(conn[c].inbox)]
       /\ \E i \in 1..Len(conn[c].inbox), j \in 1..Len(conn[d].inbox) :
             /\ conn[c].inbox[i].type = "timer.created"
             /\ conn[d].inbox[j] = conn[c].inbox[i]
             /\ conn[c].inbox[i].timer.id = conn[c].inbox[Len(conn[c].inbox)].id

(***************************************************************************)
(* C18.  An inbound message that is not valid JSON, or whose type is not   *)
(* one of ping, timer.list, timer.cancel, timer.create, makes the service  *)
(* write one error message to the sending connection and nothing to any    *)
(* other connection; the sender stays in the broadcast set and open, and   *)
(* the timer set and the armed host timers are unchanged.                  *)
(***************************************************************************)
C18_Step(c, data) ==
    Message(c, data) =>
       /\ Len(Written(c)) = 1
       /\ Written(c)[1].type = "error"
       /\ \A d \in Conns \ {c} : conn'[d] = conn[d]
       /\ clients' = clients
       /\ InSet(c)
       /\ conn'[c].state = "open"
       /\ timers' = timers
       /\ host' = host
       /\ trace' = trace

C18_MalformedGetsError == [][\A c \in Conns, data \in Unparsable : C18_Step(c, data)]_vars

\* a connection whose latest message is the parse error of the one frame
\* sent so far, next to an open connection that got its greeting only
C18_Witness ==
    \E c, d \in Conns :
       /\ c # d
       /\ Listening(c) /\ Listening(d)
       /\ conn[c].inbox[Len(conn[c].inbox)] = Error("parse", Absent)
       /\ Len(conn[d].inbox) = 2
       /\ calls = 1

(***************************************************************************)
(* C19.  A timer.create request whose timer object has unrecognized or     *)
(* ill-typed fields (a mode that is neither once nor interval, a missing   *)
(* or non-object task, a task type that is neither notify nor log, a       *)
(* non-numeric runAt or everyMs) and a timer.cancel request with a         *)
(* missing, empty or non-string id are answered with one error written to  *)
(* the sender only, and no timer is created or removed by them.            *)
(***************************************************************************)
IllTyped(t) ==
    {Object("timer.create", JUndef, timer) : timer \in BadTimers(t) \ {NoTimer, ScalarTimer}}

C19_Step(c, data) ==
    Message(c, data) =>
       /\ Len(Written(c)) = 1
       /\ Written(c)[1].type = "error"
       /\ \A d \in Conns \ {c} : conn'[d] = conn[d]
       /\ timers' = timers
       /\ host' = host
       /\ nextId' = nextId

C19_IllTypedRejected ==
    [][\A c \in Conns, data \in IllTyped(now) \cup BadCancels : C19_Step(c, data)]_vars

(***************************************************************************)
(* C20.  Every accepted connection is added to the broadcast set, and the  *)
(* first two messages written to it are hello and then a timer.list whose  *)
(* timers are exactly the scheduler's live timers at connect time; no      *)
(* broadcast of a scheduler event is written to it before these two.       *)
(***************************************************************************)
Accepted(c) == conn'[c].state # "destroyed"
Greeted(c) ==
    /\ Len(conn'[c].inbox) >= 2
    /\ conn'[c].inbox[1].type = "hello"
    /\ conn'[c].inbox[2].type = "timer.list"

C20_Step ==
    /\ \A c \in 1..Len(conn') : Accepted(c) => Greeted(c)
    /\ Len(conn') > Len(conn) =>
          LET c == Len(conn')
          IN Accepted(c) =>
                /\ \E i \in 1..Len(clients') : clients'[i] = c
                /\ conn'[c].state = "open"
                /\ Len(conn'[c].inbox) = 2
                /\ conn'[c].inbox[1].at = now
                /\ DOMAIN conn'[c].inbox[2].timers = DOMAIN timers
                /\ \A id \in DOMAIN timers : conn'[c].inbox[2].timers[id] = timers[id].info

C20_GreetingFirst == [][C20_Step]_vars

\* a connection accepted while a timer was live, which later got that
\* timer's timer.fired as its third message
C20_Witness ==
    \E c \in Conns :
       /\ Len(conn[c].inbox) >= 3
       /\ conn[c].inbox[2].type = "timer.list"
       /\ conn[c].inbox[3].type = "timer.fired"
       /\ conn[c].inbox[3].timer.id \in DOMAIN conn[c].inbox[2].timers

(***************************************************************************)
(* C21.  An upgrade request is accepted only if its path equals the        *)
(* configured path and its Origin header is absent/empty or a member of    *)
(* the configured allow-list; a request with a non-empty Origin outside    *)
(* the allow-list is refused, is never added to the broadcast set and      *)
(* never is written any message.                                           *)
(***************************************************************************)
Refused(c) == conn'[c].state = "destroyed"

C21_Step(url, origin) ==
    Upgrade(url, origin) =>
       LET c == Len(conn')
       IN /\ ~Refused(c) => url = Path /\ (origin = "" \/ origin \in AllowedOrigins)
          /\ (origin # "" /\ origin \notin AllowedOrigins) => Refused(c)
          /\ Refused(c) => clients' = clients

C21_Forever ==
    \A c \in 1..Len(conn') :
       Refused(c) => /\ conn'[c].inbox = <<>>
                     /\ \A i \in 1..Len(clients') : clients'[i] # c

C21_OriginPolicy ==
    [][C21_Forever /\ \A url \in Urls, origin \in Origins : C21_Step(url, origin)]_vars

\* a refused request next to an accepted connection that has been written
\* a broadcast since
C21_Witness ==
    \E c, d \in Conns :
       /\ conn[c].state = "destroyed"
       /\ c < d
       /\ Listening(d)
       /\ Len(conn[d].inbox) >= 3
       /\ conn[d].inbox[3].type = "timer.created"

(***************************************************************************)
(* C22.  When a connection closes it is removed from the broadcast set     *)
(* and is written no message afterwards, while the scheduler's timer set   *)
(* and armed host timers are unchanged by the close: the timers the        *)
(* connection created stay live, keep firing, and are in the timer.list    *)
(* written to connections accepted later.                                  *)
(***************************************************************************)
C22_Step ==
    /\ \A c \in Conns :
          /\ conn[c].state \in {"closing", "closed"} => conn'[c].inbox = conn[c].inbox
          /\ conn'[c].state = "closed" => \A i \in 1..Len(clients') : clients'[i] # c
          /\ conn'[c].state # conn[c].state =>
                /\ timers' = timers
                /\ host' = host
                /\ trace' = trace
                /\ \A d \in Conns \ {c} : conn'[d] = conn[d]
    /\ Len(conn') > Len(conn) /\ Accepted(Len(conn')) =>
          DOMAIN conn'[Len(conn')].inbox[2].timers = DOMAIN timers

C22_CloseKeepsTimers == [][C22_Step]_vars

\* connection 1 created a timer alone and closed; connection 2, accepted
\* afterwards, was written the timer in its timer.list and then its firing
C22_Witness ==
    /\ Len(conn) = 2
    /\ conn[1].state = "closed"
    /\ \E i \in 1..Len(conn[1].inbox) :
          /\ conn[1].inbox[i].type = "timer.created"
          /\ Len(conn[2].inbox) >= 3
          /\ conn[1].inbox[i].timer.id \in DOMAIN conn[2].inbox[2].timers
          /\ conn[2].inbox[3].type = "timer.fired"
          /\ conn[2].inbox[3].timer.id = conn[1].inbox[i].timer.id
          /\ conn[1].inbox[Len(conn[1].inbox)].type # "timer.fired"

(***************************************************************************)
(* FailSpec: the service with connections whose socket stops taking        *)
(* writes while readyState is still OPEN (the peer is gone, the network    *)
(* is down), and clients that send well-formed create and cancel requests. *)
(***************************************************************************)
Break(c) ==
    /\ c \in 1..Len(conn)
    /\ conn[c].state = "open"
    /\ conn' = [conn EXCEPT ![c].state = "dead"]
    /\ UNCHANGED <<now, timers, host, listeners, nextId, calls, reacts, trace, last,
                   held, callers, clients>>

FailNext ==
    \/ \E url \in Urls, origin \in Origins : Upgrade(url, origin)
    \/ \E c \in 1..Len(conn), data \in Creates(now) \cup Cancels : Message(c, data)
    \/ \E c \in 1..Len(conn) : Break(c)
    \/ \E c \in 1..Len(conn) : Closing(c)
    \/ \E c \in 1..Len(conn) : Close(c)
    \/ \E h \in DOMAIN host : WsHostFire(h)
    \/ Tick

FailSpec == WsInit /\ [][FailNext]_vars

(***************************************************************************)
(* C23.  A write failure on one connection while a scheduler event is      *)
(* being broadcast does not prevent the same event from being delivered    *)
(* to every other open connection, does not remove or close any other      *)
(* connection, and does not undo or abort the scheduler operation that     *)
(* produced the event: the operation returns, raises nothing and emits no  *)
(* timer.error.                                                            *)
(***************************************************************************)
WriteFails(c) == InSet(c) /\ conn[c].state \in {"dead", "failed"} /\ Len(NewEmits) > 0

C23_Step ==
    (\E c \in Conns : WriteFails(c)) =>
       /\ \A d \in Conns :
             Listening(d) =>
                /\ Len(Written(d)) = Len(NewEmits)
                /\ \A i \in 1..Len(NewEmits) : Carries(Written(d)[i], NewEmits[i])
       /\ clients' = clients
       /\ \A d \in Conns : ~WriteFails(d) => conn'[d].state = conn[d].state
       /\ \A i \in New : trace'[i].k \notin {"raise", "uncaught"}
       /\ \A i \in 1..Len(NewEmits) : NewEmits[i].type # "timer.error"
       /\ RequestStep("createTimer") =>
             /\ Ends.k = "return"
             /\ Ends.id \in DOMAIN timers' \ DOMAIN timers
             /\ Handle(Ends.id, "timeout") \in DOMAIN host'
       /\ RequestStep("cancelTimer") =>
             /\ Ends.k = "return"
             /\ Ends.id \notin DOMAIN timers'

C23_FailureIsolated == [][C23_Step]_vars

\* the first connection of the broadcast set failed a write, and the second,
\* open, was written timer.created and timer.fired of a timer still live
C23_Witness ==
    /\ Len(clients) = 2
    /\ conn[clients[1]].state = "failed"
    /\ Listening(clients[2])
    /\ \E i \in 1..Len(conn[clients[2]].inbox) :
          /\ i > 1
          /\ conn[clients[2]].inbox[i].type = "timer.fired"
          /\ conn[clients[2]].inbox[i - 1].type = "timer.created"
          /\ conn[clients[2]].inbox[i].timer.id \in DOMAIN timers
    /\ \A i \in 1..Len(conn[clients[1]].inbox) :
          conn[clients[1]].inbox[i].type \in {"hello", "timer.list"}

(***************************************************************************)
(* C24.  pong is the one reply to a well-formed request that is written    *)
(* to the requesting connection only: a ping yields exactly one pong       *)
(* carrying the ping's id to the requester, nothing to other connections   *)
(* and no scheduler mutation, whereas the timer.list message produced by   *)
(* a timer.list request is written to every open connection of the         *)
(* broadcast set, like the other timer.* messages.                         *)
(***************************************************************************)
PongOnly(c, data) ==
    Message(c, data) =>
       /\ Len(Written(c)) = 1
       /\ Written(c)[1].type = "pong"
       /\ isString(data.id) => Written(c)[1].pingId = Some(data.id)
       /\ data.id = JUndef => Written(c)[1].pingId = Absent
       /\ \A d \in Conns \ {c} : conn'[d] = conn[d]
       /\ timers' = timers
       /\ host' = host
       /\ trace' = trace

ListToAll(c, data) ==
    Message(c, data) =>
       /\ \A d \in Conns :
             IF Listening(d)
             THEN /\ Len(Written(d)) = 1
                  /\ Written(d)[1].type = "timer.list"
                  /\ DOMAIN Written(d)[1].timers = DOMAIN timers
             ELSE conn'[d].inbox = conn[d].inbox
       /\ timers' = timers
       /\ host' = host

C24_PingsOnly == [][\A c \in Conns, data \in Pings : PongOnly(c, data)]_vars

C24_PongIsTheOneUnicast ==
    [][\A c \in Conns : /\ \A data \in Pings : PongOnly(c, data)
                        /\ \A data \in Lists : ListToAll(c, data)]_vars

(***************************************************************************)
(* C28.  In every reachable state the armed host timers are exactly the    *)
(* handles stored for the live timers: each live timer's stored handle is  *)
(* the host timer armed for it (the timeout of a once timer; for an        *)
(* interval timer the initial timeout before its first firing and the      *)
(* periodic interval after it), and a timer that was canceled or removed   *)
(* after firing has no armed host timer left.                              *)
(***************************************************************************)
C28_HandlesMatch ==
    /\ \A id \in DOMAIN timers :
          /\ timers[id].handle \in DOMAIN host
          /\ timers[id].handle.tid = id
          /\ timers[id].info.mode = "once" =>
                /\ timers[id].handle.kind = "timeout"
                /\ host[timers[id].handle].cb = "once"
          /\ timers[id].info.mode = "interval" /\ timers[id].info.lastRunAt = Absent =>
                /\ timers[id].handle.kind = "timeout"
                /\ host[timers[id].handle].cb = "first"
          /\ timers[id].info.mode = "interval" /\ timers[id].info.lastRunAt # Absent =>
                /\ timers[id].handle.kind = "interval"
                /\ host[timers[id].handle].cb = "tick"
                /\ host[timers[id].handle].period = Get(timers[id].info.everyMs)
    /\ \A h \in DOMAIN host :
          /\ h.tid \in DOMAIN timers
          /\ timers[h.tid].handle = h

\* an interval timer past its first firing, next to a timer that was
\* canceled and a once timer that fired
C28_Witness ==
    /\ \E id \in DOMAIN timers : timers[id].handle.kind = "interval"
    /\ \E id \in TimerIds : Canceled(id) \/ (\E i \in Idx : Emitted(i, "timer.fired", id)
                                                          /\ trace[i].timer.mode = "once")
    /\ Cardinality(DOMAIN host) = Cardinality(DOMAIN timers)

(***************************************************************************)
(* C30.  An interval timer fires for the first time at max(startAt,        *)
(* createdAt): createTimer arms its first firing for that time, which is   *)
(* immediately after creation when startAt is omitted or in the past, and  *)
(* not one period after creation, and the first firing is not earlier.     *)
(* Its second firing follows one everyMs period after the first: it is     *)
(* not earlier than the first firing's firedAt + everyMs.                  *)
(***************************************************************************)
HooksBefore(id) == {i \in Idx : HookRan(i, id)}
NewHooks(id) == {i \in New : trace'[i].k = "hook" /\ trace'[i].id = id}

C30_Created ==
    RequestStep("createTimer") /\ Ends.k = "return" /\ Ends.timer.mode = "interval" =>
       LET info == Ends.timer
           input == trace'[Len(trace) + 1].timer
           h == Handle(info.id, "timeout")
           startAt == IF input.startAt = Absent THEN info.createdAt ELSE Get(input.startAt)
       IN /\ info.nextRunAt = IF startAt > info.createdAt THEN startAt ELSE info.createdAt
          /\ h \in DOMAIN host'
          /\ host'[h].due = IF info.nextRunAt > now' THEN info.nextRunAt ELSE now'
          /\ startAt <= info.createdAt =>
                /\ host'[h].due = now'
                /\ host'[h].due < info.createdAt + Get(info.everyMs)

C30_First ==
    \A id \in DOMAIN timers : \A i \in NewHooks(id) :
       (timers[id].info.mode = "interval" /\ HooksBefore(id) = {})
          => /\ trace'[i].firedAt >= timers[id].info.nextRunAt
             /\ trace'[i].firedAt >= timers[id].info.createdAt

C30_Second ==
    \A id \in DOMAIN timers : \A i \in NewHooks(id) :
       (timers[id].info.mode = "interval" /\ Cardinality(HooksBefore(id)) = 1)
          => trace'[i].firedAt >=
                trace[LastOf(HooksBefore(id))].firedAt + Get(timers[id].info.everyMs)

C30_FirstFiringAtStart == [][C30_Created /\ C30_First]_vars

C30_IntervalSchedule == [][C30_Created /\ C30_First /\ C30_Second]_vars


(***************************************************************************)
(* executeTimerAction(action): the request correlator, a client of the     *)
(* service.  Each run opens a connection of its own, sends one request     *)
(* and waits for the message that answers it.                              *)
(*                                                                         *)
(* callers[a] is the a-th run:                                             *)
(*   action, requestId   what it was called with, and its token            *)
(*   c                   the service's connection for its socket, 0 until  *)
(*                       the upgrade request arrived                       *)
(*   ws                  readyState of its socket                          *)
(*   phase               "opening", "waiting", or "done" once it returned  *)
(*                       or threw                                          *)
(*   armed               the timeouts and listeners it has registered      *)
(*   due                 when the armed timeout fires                      *)
(*   read                how many messages of conn[c].inbox its socket     *)
(*                       has dispatched                                    *)
(*   sent                its request is on the way to the service          *)
(*   settles             how often resolve or reject of waitFor ran        *)
(*   result              what it returned, or the reason it threw          *)
(***************************************************************************)
MaxCallers == 3
\* how many runs are under way at a time
MaxRunning == 2
\* how many runs are followed when connections can fail
MaxSerial == 2
\* getTimerWsConfig().timeoutMs: lines 84-88
timeoutMs == 5
\* how far ahead of the clock a caller asks a timer to run, and the clock
\* value the runs are followed to
RunAhead == 50
Horizon == 10

\* createRequestId(): lines 370-372, for the a-th run; a UUID, never the
\* same twice
createRequestId(a) == a

\* the data of a task: a JSON object with the fields of the original data
\* (own), its value (value) or no more (none), and __requestId
Tagged(fields, requestId) == [t |-> "object", fields |-> fields, requestId |-> requestId]

\* withRequestId(task, requestId): lines 378-385
withRequestId(task, requestId) ==
    [task EXCEPT !.data = IF task.data = "object" THEN Tagged("own", requestId)
                          ELSE IF task.data = "undefined" THEN Tagged("none", requestId)
                          ELSE Tagged("value", requestId)]

\* TimerAction: lines 302-320
ListAction == [name |-> "timer.list", id |-> UnknownId, runAt |-> 0, data |-> "undefined"]
CancelAction(id) == [name |-> "timer.cancel", id |-> id, runAt |-> 0, data |-> "undefined"]
CreateAction(runAt, data) ==
    [name |-> "timer.create", id |-> UnknownId, runAt |-> runAt, data |-> data]
Actions(t) ==
    {ListAction} \cup {CancelAction(id) : id \in 1..nextId}
    \cup {CreateAction(t + RunAhead, "undefined")}

\* the frame ws.send() is given: lines 479, 490, 505
frame(action, requestId) ==
    IF action.name = "timer.list" THEN Object("timer.list", JUndef, NoTimer)
    ELSE IF action.name = "timer.cancel" THEN Object("timer.cancel", JStr(action.id), NoTimer)
    ELSE Object("timer.create", JUndef,
                Once(JNum(action.runAt),
                     [t |-> "object"]
                     @@ withRequestId([type |-> "notify", data |-> action.data], requestId)))

\* what a run returned (ok, id of the created timer) or the reason it threw
Unsettled == [kind |-> "pending", ok |-> FALSE, id |-> UnknownId, n |-> 0]
Returned(ok, id, n) == [kind |-> "returned", ok |-> ok, id |-> id, n |-> n]
Threw(reason) == [kind |-> reason, ok |-> FALSE, id |-> UnknownId, n |-> 0]

\* the predicates of lines 480-485, 491-497 and 507-522: the match, or
\* null (Unsettled)
isList(msg) ==
    IF msg.type = "timer.list" THEN Returned(TRUE, UnknownId, Len(msg.timers)) ELSE Unsettled
isCanceled(msg, id) ==
    IF msg.type = "timer.canceled" /\ msg.id = id
    THEN Returned(msg.ok, UnknownId, 0)
    ELSE Unsettled
\* a create predicate that takes every timer.created message
isAnyCreated(msg, requestId) ==
    IF msg.type = "timer.created" THEN Returned(TRUE, msg.timer.id, 0) ELSE Unsettled
isCreated(msg, requestId) ==
    IF msg.type # "timer.created" THEN Unsettled
    ELSE IF msg.timer.task.data.t # "object" THEN Unsettled
    ELSE IF msg.timer.task.data.requestId # requestId THEN Unsettled
    ELSE Returned(TRUE, msg.timer.id, 0)
predicate(action, requestId, msg) ==
    IF action.name = "timer.list" THEN isList(msg)
    ELSE IF action.name = "timer.cancel" THEN isCanceled(msg, action.id)
    ELSE isCreated(msg, requestId)

(***************************************************************************)
(* The promise of lines 454-475 registers OpenArmed, waitFor (lines        *)
(* 401-452) registers WaitArmed.                                           *)
(***************************************************************************)
OpenArmed == {"open.timer", "open.onOpen", "open.onError"}
WaitArmed == {"wait.timer", "wait.onMessage", "wait.onError", "wait.onClose"}

\* lines 397-398 and 455-474: the run as it suspends at the first await
Caller(action, requestId, clock) ==
    [action |-> action, requestId |-> requestId, c |-> 0, ws |-> "connecting",
     phase |-> "opening", armed |-> OpenArmed, due |-> clock + timeoutMs, read |-> 0,
     sent |-> FALSE, settles |-> 0, result |-> Unsettled]

\* ws.close(): line 533
close(ws) == IF ws = "closed" THEN ws ELSE "closing"

\* a cleanup that clears and removes nothing
cleanupNothing(w) == w

\* cleanup() of waitFor: lines 407-412
cleanup(w) == [w EXCEPT !.armed = @ \ WaitArmed, !.due = 0]

\* a handler of waitFor settles the wait (resolve or reject after cleanup),
\* the run leaves the try block and the finally block closes the socket.
\* A promise keeps its first settlement.
settle(w, result) ==
    [cleanup(w) EXCEPT !.settles = @ + 1,
                       !.result = IF w.result = Unsettled THEN result ELSE @,
                       !.phase = "done",
                       !.ws = IF w.phase = "waiting" THEN close(@) ELSE @]

\* onOpen: lines 461-465, and the statements up to the await of waitFor
onOpen(w, clock) ==
    IF w.phase = "opening"
    THEN [w EXCEPT !.armed = WaitArmed, !.due = clock + timeoutMs, !.phase = "waiting",
                   !.sent = TRUE]
    ELSE [w EXCEPT !.armed = {}, !.due = 0]

\* onError of the first promise: lines 467-471
onOpenError(w) ==
    [w EXCEPT !.armed = {}, !.due = 0, !.phase = "done",
              !.result = IF w.result = Unsettled THEN Threw("open failed") ELSE @]

CallerUnchanged ==
    UNCHANGED <<now, timers, host, listeners, nextId, calls, reacts, trace, last, held,
                clients, conn>>

\* executeTimerAction(action) is called: lines 390-398, 454-475
Running == {a \in DOMAIN callers : callers[a].phase # "done"}

Start(action) ==
    /\ Len(callers) < MaxCallers
    /\ Cardinality(Running) < MaxRunning
    /\ now + timeoutMs <= Horizon
    /\ callers' = Append(callers,
                         Caller(action, createRequestId(Len(callers) + 1), now))
    /\ CallerUnchanged

\* the upgrade request of run a reaches the service: lines 85-105 of
\* timerWsServer.ts.  A WebSocket client outside a browser sends no Origin.
Accept(a, url) ==
    /\ callers[a].c = 0
    /\ callers[a].ws = "connecting"
    /\ LET c == Len(conn) + 1
           refused == [state |-> "destroyed", inbox |-> <<>>]
           C == Append(conn, [refused EXCEPT !.state = "open"])
       IN /\ IF url # Path \/ ~isOriginAllowed("", AllowedOrigins)
             THEN /\ conn' = Append(conn, refused)
                  /\ clients' = clients
             ELSE /\ clients' = Append(clients, c)
                  /\ conn' = send(send(C, c, Hello(now)), c, TimerList(State))
          /\ callers' = [callers EXCEPT ![a].c = c]
    /\ UNCHANGED <<now, timers, host, listeners, nextId, calls, reacts, trace, last, held>>

\* the socket of run a dispatches 'open'
ClientOpen(a) ==
    /\ callers[a].ws = "connecting"
    /\ callers[a].c # 0
    /\ conn[callers[a].c].state # "destroyed"
    /\ callers' = [callers EXCEPT ![a] =
                      IF "open.onOpen" \in @.armed
                      THEN [onOpen(@, now) EXCEPT !.ws = "open"]
                      ELSE [@ EXCEPT !.ws = "open"]]
    /\ CallerUnchanged

\* the timeout of the first promise fires: line 455
OpenTimeout(a) ==
    /\ "open.timer" \in callers[a].armed
    /\ now >= callers[a].due
    /\ callers' = [callers EXCEPT ![a].armed = @ \ {"open.timer"},
                                  ![a].due = 0,
                                  ![a].phase = "done",
                                  ![a].result = Threw("open timeout")]
    /\ CallerUnchanged

\* the socket of run a dispatches 'error': the connection attempt failed
\* (nothing listens, or the service refused the upgrade), or the socket
\* under the connection broke during the wait; 'close' follows
ClientError(a) ==
    /\ \/ /\ callers[a].ws = "connecting"
          /\ callers[a].c # 0 => conn[callers[a].c].state = "destroyed"
       \/ /\ callers[a].ws = "open"
          /\ callers[a].phase = "waiting"
    /\ callers' = [callers EXCEPT ![a] =
                      IF "open.onError" \in @.armed
                      THEN [onOpenError(@) EXCEPT !.ws = "closing"]
                      ELSE IF "wait.onError" \in @.armed
                      THEN [settle(@, Threw("connection error")) EXCEPT !.ws = "closing"]
                      ELSE [@ EXCEPT !.ws = "closing"]]
    /\ CallerUnchanged

\* the socket of run a dispatches 'close': the service's end of the
\* connection, if there was one, is closed
ClientClose(a) ==
    /\ callers[a].ws \in {"open", "closing"}
    /\ callers[a].c # 0 => conn[callers[a].c].state \in {"closed", "destroyed"}
    /\ callers' = [callers EXCEPT ![a] =
                      IF "wait.onClose" \in @.armed
                      THEN [settle(@, Threw("connection closed")) EXCEPT !.ws = "closed"]
                      ELSE [@ EXCEPT !.ws = "closed"]]
    /\ CallerUnchanged

\* the socket of run a dispatches the next message the service wrote:
\* onMessage, lines 414-436
Deliver(a) ==
    /\ callers[a].ws = "open"
    /\ callers[a].read < Len(conn[callers[a].c].inbox)
    /\ callers' = [callers EXCEPT ![a] =
                      LET w == [@ EXCEPT !.read = @ + 1]
                          match == predicate(w.action, w.requestId,
                                             conn[w.c].inbox[w.read])
                      IN IF "wait.onMessage" \in w.armed /\ match # Unsettled
                         THEN settle(w, match)
                         ELSE w]
    /\ CallerUnchanged

\* the timeout of waitFor fires: lines 403-406
WaitTimeout(a) ==
    /\ "wait.timer" \in callers[a].armed
    /\ now >= callers[a].due
    /\ callers' = [callers EXCEPT ![a] =
                      settle([@ EXCEPT !.armed = @ \ {"wait.timer"}],
                             Threw("wait timeout"))]
    /\ CallerUnchanged

\* the request of run a reaches the service: ws.on('message'), lines
\* 107-120 of timerWsServer.ts
Serve(a) ==
    /\ callers[a].sent
    /\ conn[callers[a].c].state = "open"
    /\ LET request == parseClientMessage(frame(callers[a].action, callers[a].requestId))
       IN Respond(callers[a].c, request,
                  handleRequest(State, conn, callers[a].c, request, nextId + 1))
    /\ callers' = [callers EXCEPT ![a].sent = FALSE]
    /\ UNCHANGED <<listeners, calls, held, clients>>

\* the moments at which something is due
Dues == {callers[a].due : a \in {x \in DOMAIN callers : callers[x].due # 0}}

\* time passes, up to the next moment a timeout of a run is due; the
\* timeout fires when it is due
CorrTick ==
    /\ \A a \in DOMAIN callers : callers[a].due # 0 => callers[a].due > now
    /\ \E t \in Dues :
          /\ t > now
          /\ \A u \in Dues : u > now => t <= u
          /\ now' = t
    /\ UNCHANGED <<timers, host, listeners, nextId, calls, reacts, trace, last, outside>>

\* the service's end of the connection of run a can leave OPEN: the run
\* closed its socket, or the connection is lost during the wait
Gone(a) ==
    /\ callers[a].c # 0
    /\ \/ callers[a].ws \in {"closing", "closed"}
       \/ callers[a].ws = "open" /\ callers[a].phase = "waiting"

\* runs one after the other, over connections that can fail
CorrNext ==
    \/ \E action \in Actions(now) :
          Running = {} /\ Len(callers) < MaxSerial /\ Start(action)
    \/ \E a \in DOMAIN callers, url \in Urls : Accept(a, url)
    \/ \E a \in DOMAIN callers : ClientOpen(a)
    \/ \E a \in DOMAIN callers : OpenTimeout(a)
    \/ \E a \in DOMAIN callers : ClientError(a)
    \/ \E a \in DOMAIN callers : ClientClose(a)
    \/ \E a \in DOMAIN callers : Deliver(a)
    \/ \E a \in DOMAIN callers : WaitTimeout(a)
    \/ \E a \in DOMAIN callers : Serve(a)
    \/ \E a \in DOMAIN callers : Gone(a) /\ Closing(callers[a].c)
    \/ \E c \in 1..Len(conn) : Close(c)
    \/ CorrTick

CorrSpec == WsInit /\ [][CorrNext]_vars

\* runs at the same time, over connections that stay up until the run
\* closes its socket, followed while no timeout is due
RaceNext ==
    \/ \E action \in Actions(now) : Start(action)
    \/ \E a \in DOMAIN callers : Accept(a, Path)
    \/ \E a \in DOMAIN callers : ClientOpen(a)
    \/ \E a \in DOMAIN callers : ClientClose(a)
    \/ \E a \in DOMAIN callers : Deliver(a)
    \/ \E a \in DOMAIN callers : Serve(a)
    \/ \E a \in DOMAIN callers : callers[a].ws = "closing" /\ Closing(callers[a].c)
    \/ \E c \in 1..Len(conn) : Close(c)

RaceSpec == WsInit /\ [][RaceNext]_vars


(***************************************************************************)
(* Vocabulary of the claims about the correlator.                          *)
(***************************************************************************)
Runs == DOMAIN callers
\* the messages the socket of run a has dispatched
Dispatched(a) ==
    IF callers[a].c = 0 THEN <<>> ELSE SubSeq(conn[callers[a].c].inbox, 1, callers[a].read)
Matches(a, msg) == predicate(callers[a].action, callers[a].requestId, msg)
\* the wait of run a settles in this step
Settles(a) == callers[a].result = Unsettled /\ callers'[a].result # Unsettled
Reasons == {"wait timeout", "connection closed", "connection error",
            "open timeout", "open failed"}

(***************************************************************************)
(* C25: a wait of the correlator settles exactly once.  It resolves on the *)
(* first dispatched message that satisfies its predicate; it rejects with  *)
(* the timeout reason when its window has elapsed, with the closed reason  *)
(* on 'close' and with the error reason on 'error', and the reasons differ *)
(* with the cause.  While it is pending its window has not elapsed, and    *)
(* once it settled no event changes its result or runs one of its          *)
(* handlers again.                                                         *)
(***************************************************************************)
C25_Pending(a) ==
    /\ callers[a].settles <= 1
    /\ callers[a].phase # "done"
          => /\ callers[a].result = Unsettled
             /\ callers[a].settles = 0
             /\ callers[a].due # 0
             /\ now <= callers[a].due
    /\ callers[a].phase = "done"
          => /\ callers[a].result # Unsettled
             /\ callers[a].armed \cap WaitArmed = {}
             /\ "open.timer" \notin callers[a].armed

C25_Step(a) ==
    /\ callers[a].phase = "opening" /\ callers'[a].phase = "waiting"
          => callers'[a].due = now + timeoutMs
    /\ callers[a].result # Unsettled
          => /\ callers'[a].result = callers[a].result
             /\ callers'[a].settles = callers[a].settles
    /\ Settles(a)
          => /\ callers'[a].result.kind \in Reasons \cup {"returned"}
             /\ callers'[a].result.kind = "returned"
                   => /\ callers[a].phase = "waiting"
                      /\ callers'[a].read = callers[a].read + 1
                      /\ callers'[a].result
                            = Matches(a, conn[callers[a].c].inbox[callers'[a].read])
                      /\ \A i \in 1..callers[a].read :
                            Matches(a, Dispatched(a)[i]) = Unsettled
             /\ callers'[a].result.kind = "wait timeout"
                   => /\ callers[a].phase = "waiting"
                      /\ now = callers[a].due
             /\ callers'[a].result.kind = "connection closed"
                   => /\ callers[a].phase = "waiting"
                      /\ callers[a].ws = "open" /\ callers'[a].ws = "closed"
             /\ callers'[a].result.kind = "connection error"
                   => /\ callers[a].phase = "waiting"
                      /\ callers[a].ws = "open" /\ callers'[a].ws = "closing"
                      /\ callers'[a].read = callers[a].read
             /\ callers'[a].result.kind = "open timeout"
                   => /\ callers[a].phase = "opening"
                      /\ now = callers[a].due
             /\ callers'[a].result.kind = "open failed"
                   => /\ callers[a].phase = "opening"
                      /\ callers[a].ws = "connecting" /\ callers'[a].ws = "closing"

C25_SettlesOnce ==
    [][\A a \in Runs : C25_Pending(a) /\ C25_Step(a)]_vars

\* one run returned a match and its socket has since dispatched 'close';
\* another was rejected by its timeout
C25_Witness ==
    \E a \in Runs, b \in Runs :
       /\ callers[a].result.kind = "returned"
       /\ callers[a].ws = "closed"
       /\ callers[a].settles = 1
       /\ callers[b].result.kind = "wait timeout"


(***************************************************************************)
(* C26: a run that sent timer.create with token T resolves only with a     *)
(* timer.created message whose task data carries T.  The service stores    *)
(* and echoes the task data of the request unchanged, so with several      *)
(* runs creating timers at the same time each returns the id of the timer  *)
(* its own request created and none returns the id another run returns.    *)
(***************************************************************************)
Creators == {a \in Runs : callers[a].action.name = "timer.create"}
\* the announcements of timer id on the event stream
Announced(id) ==
    {i \in 1..Len(trace) : /\ trace[i].k = "emit"
                           /\ trace[i].type = "timer.created"
                           /\ trace[i].timer.id = id}
\* the service handles the create request of run a in this step
Serves(a) == callers[a].sent /\ ~callers'[a].sent /\ nextId' = nextId + 1

C26_Echo(a) ==
    Serves(a) =>
       /\ timers'[nextId'].info.task
             = withRequestId([type |-> "notify", data |-> callers[a].action.data],
                             callers[a].requestId)
       /\ \A c \in Conns :
             (conn[c].state = "open" /\ InSet(c))
                => /\ Len(conn'[c].inbox) = Len(conn[c].inbox) + 1
                   /\ conn'[c].inbox[Len(conn'[c].inbox)].type = "timer.created"
                   /\ conn'[c].inbox[Len(conn'[c].inbox)].timer = timers'[nextId'].info

C26_Own(a) ==
    callers[a].result.kind = "returned" =>
       /\ Announced(callers[a].result.id) # {}
       /\ \A i \in Announced(callers[a].result.id) :
             trace[i].timer.task.data.requestId = callers[a].requestId
       /\ \A b \in Creators \ {a} :
             callers[b].result.kind = "returned"
                => callers[b].result.id # callers[a].result.id

C26_TokenMatch ==
    [][\A a \in Creators : C26_Echo(a) /\ C26_Own(a)]_vars

\* two runs each returned its own timer, the socket of one having
\* dispatched the announcement of the other's timer during its wait
C26_Witness ==
    \E a \in Creators, b \in Creators :
       /\ a # b
       /\ callers[a].result.kind = "returned"
       /\ callers[b].result.kind = "returned"
       /\ callers[a].result.id # callers[b].result.id
       /\ \E i \in 1..callers[a].read :
             /\ Dispatched(a)[i].type = "timer.created"
             /\ Dispatched(a)[i].timer.id = callers[b].result.id


(***************************************************************************)
(* C27: the result of a timer.cancel run is the outcome of its own cancel  *)
(* request.  Of two runs that cancel the same timer, which was live and    *)
(* which nothing else cancels, one reports ok:true and the other ok:false. *)
(***************************************************************************)
Cancellers(id) ==
    {a \in Runs : callers[a].action.name = "timer.cancel" /\ callers[a].action.id = id}
\* the outcomes of the cancelTimer(id) calls the service has made
Outcomes(id) ==
    {i \in 1..Len(trace) : /\ trace[i].k = "return"
                           /\ trace[i].type = "cancelTimer"
                           /\ trace[i].id = id}

C27_OneSuccess ==
    \A id \in TimerIds : \A a \in Cancellers(id), b \in Cancellers(id) :
       (/\ a # b
        /\ callers[a].result.kind = "returned"
        /\ callers[b].result.kind = "returned")
          => callers[a].result.ok # callers[b].result.ok

\* the part that holds: a run never reports success unless a cancelTimer
\* call for its id succeeded
C27_SuccessIsReal ==
    \A id \in TimerIds : \A a \in Cancellers(id) :
       (callers[a].result.kind = "returned" /\ callers[a].result.ok)
          => \E i \in Outcomes(id) : trace[i].ok


(***************************************************************************)
(* C29: once executeTimerAction has returned or thrown, on whichever path, *)
(* the socket it opened is closed or closing and none of its timeouts or   *)
(* listeners is armed.                                                     *)
(***************************************************************************)
Released(a) == callers[a].ws \in {"closing", "closed"} /\ callers[a].armed = {}

C29_AlwaysReleased ==
    \A a \in Runs : callers[a].phase = "done" => Released(a)

\* the part that holds: every exit but the open timeout releases
C29_ReleasedUnlessOpenTimeout ==
    \A a \in Runs :
       (callers[a].phase = "done" /\ callers[a].result.kind # "open timeout")
          => Released(a)

\* what the open timeout leaves: a socket that opened after the run threw
\* and that nothing will close
C29_Leaked ==
    \E a \in Runs :
       /\ callers[a].result.kind = "open timeout"
       /\ callers[a].ws = "open"
       /\ callers[a].armed = {}

=============================================================================
